---- MODULE Spec2Model ----
(***************************************************************************)
(* A model of the tk-config-swc hooks: the environment picker, the         *)
(* Perforce user mapping, the publish plugins and their post-phase hook,   *)
(* and the publish collector's file classification.  Each hook is a leaf   *)
(* callback of the host toolkit, so each gets a specification of its own   *)
(* over the variables it touches; the other variables stay at rest.        *)
(***************************************************************************)
EXTENDS Integers, Sequences, FiniteSets, TLC

VARIABLES
    \* ---- core/hooks/pick_environment.py
    context,        \* the context handed to PickEnvironment.execute
    sg_entity,      \* the ShotGrid record find_one returns for context.entity
    env_result,     \* what the last call of execute returned ("unset" before)
    env_last,       \* <<context, record, result>> of the call before that
    \* ---- hooks/tk-framework-perforce/get_perforce_user.py
    sg_user,        \* the sg_user dictionary handed to GetPerforceUser.execute
    human_user,     \* the HumanUser entities of ShotGrid, by id
    p4_result,      \* what the last call of execute returned
    p4_queries,     \* ids of the find_one calls the last call of execute made
    \* ---- hooks/tk-multi-publish2/publish_file.py and post_phase.py
    run,            \* the publish run of the dialog (1 is the first)
    phase,          \* the host's phase of the run
    idx,            \* the item the current loop over the publish tree is at
    parent,         \* item.parent of every item (0 is the tree's root)
    has_task,       \* the items that carry a checked publish task
    publish_data,   \* item.properties.publish_data, per item
    sg_publish_data,\* item.properties.sg_publish_data, per item
    finalized,      \* the items finalize has acted on
    pp_pc,          \* where post_publish stands
    new_change,     \* post_publish's new_change (0: none created)
    change_items,   \* post_publish's change_items
    changed_files,  \* post_publish's changed_files and submitted_change
    p4_changes,     \* the Perforce server's changelists, by change id
    head_rev,       \* the Perforce server's head revision of every file
    workers,        \* the ChangeSubmitWorkers given to the thread pool
    signals,        \* submission_response signals emitted and not yet delivered
    submission,     \* PostPhaseHook.submission
    invalid_file,   \* the item open_file_for_edit raised for (0: none)
    register_calls, \* the items register_publish was called for, in order
    \* ---- hooks/tk-multi-publish2: accept and validate of the plugins
    item,           \* the item presented to a plugin
    plugin,         \* the plugin whose method was called last
    method,         \* "accept" or "validate" ("unset" before any call)
    result,         \* what that call returned
    base_called,    \* did that call run the base class validation
    \* ---- hooks/tk-multi-publish2/collector.py
    extension,      \* file_info["extension"] of the path to classify
    category_type,  \* what mimetypes.guess_type finds for the file name
    visit_order,    \* the order in which common_file_info yields its keys
    item_info,       \* what the last call of _get_item_info returned
    \* ---- hooks/tk-multi-publish2/collector.py, _process_hierarchy
    hier_input, \* the item_infos _process_hierarchy was called with
    item_infos, \* _process_hierarchy's item_infos, the items not nested yet
    parent_items, \* the copy of item_infos the outer loop runs over
    parent_idx, \* the place of parent_item in that copy
    lower_items, \* lower_items of the current parent_item
    lower_idx, \* the place of lower_item in lower_items
    children, \* item_info["children"] of every file
    hier_pc, \* where _process_hierarchy stands
    \* ---- hooks/tk-multi-workfiles2: scene operations
    operation, \* the operation execute is called with
    file_action, \* the Perforce action of file_path
    answer, \* what the user answers when a prompt asks
    active_document, \* the document Photoshop has open
    base_class, \* what execute of the Perforce hook returned
    prompted, \* has the checkout prompt been shown in this call
    checked_out, \* has this call opened file_path for edit
    so_pc, \* where execute stands
    so_result, \* what execute returned
    \* ---- hooks/tk-multi-publish2/path_info.py
    util_path, \* the path handed to a method of BasicPathInfo
    util_call, \* the call made on it and what it returned
    util_again, \* the call made on the returned path and what it returned
    \* ---- hooks/tk-multi-publish2/upload_version.py, get_next_version_name
    upload_path, \* item.properties["path"] of the file uploaded for review
    sg_versions, \* the codes of the Versions of the entity, oldest first
    uploads, \* the number and the name every upload of the file got
    \* ---- hooks/tk-multi-publish2/post_phase.py, _update_version_data
    vd_parent, \* item.parent of every item of the tree (0 is the root)
    vd_published, \* the items that have sg_publish_data
    vd_version_data, \* the items that have sg_version_data
    vd_version, \* sg_publish_data["version"] of every item (0: not linked)
    vd_idx, \* the item the loop of _update_version_data is at
    \* ---- hooks/tk-multi-publish2/post_phase.py, _update_thumbnails
    th_published, \* the items that have sg_publish_data
    th_thumbnail, \* the items whose thumbnail was set explicitly
    th_version, \* the items whose sg_publish_data has a version
    th_pc, \* where _update_thumbnails stands
    th_idx, \* the item the loop of _update_thumbnails is at
    th_x, \* x of the retry loop
    th_sleep_time, \* sleep_time of the retry loop
    th_tries, \* turns of the retry loop that called share_thumbnail, for the item
    th_sleeps, \* the seconds slept after the failures, for the item
    th_shared \* the items whose thumbnail was shared

envVars == <<context, sg_entity, env_result, env_last>>
p4uVars == <<sg_user, human_user, p4_result, p4_queries>>
hostVars == <<run, phase, idx, parent, has_task, publish_data, sg_publish_data,
              finalized>>
hookVars == <<pp_pc, new_change, change_items, changed_files, submission,
              invalid_file, register_calls>>
p4Vars == <<p4_changes, head_rev>>
poolVars == <<workers, signals>>
pubVars == <<hostVars, hookVars, p4Vars, poolVars>>
plugVars == <<item, plugin, method, result, base_called>>
colVars == <<extension, category_type, visit_order, item_info>>
hierVars == <<hier_input, item_infos, parent_items, parent_idx, lower_items,
              lower_idx, children, hier_pc>>
sceneVars == <<operation, file_action, answer, active_document, base_class, prompted, checked_out, so_pc, so_result>>
pathVars == <<util_path, util_call, util_again>>
nextVersionVars == <<upload_path, sg_versions, uploads>>
versionDataVars == <<vd_parent, vd_published, vd_version_data, vd_version, vd_idx>>
thumbVars == <<th_published, th_thumbnail, th_version, th_pc, th_idx, th_x, th_sleep_time, th_tries, th_sleeps, th_shared>>
vars == <<envVars, p4uVars, pubVars, plugVars, colVars, hierVars, sceneVars, pathVars, nextVersionVars, versionDataVars, thumbVars>>

\* What each hook leaves alone: the variables of the other hooks.
notEnv == <<p4uVars, pubVars, plugVars, colVars, hierVars, sceneVars, pathVars, nextVersionVars, versionDataVars, thumbVars>>
notP4u == <<envVars, pubVars, plugVars, colVars, hierVars, sceneVars, pathVars, nextVersionVars, versionDataVars, thumbVars>>
notPub == <<envVars, p4uVars, plugVars, colVars, hierVars, sceneVars, pathVars, nextVersionVars, versionDataVars, thumbVars>>
notPlug == <<envVars, p4uVars, pubVars, colVars, hierVars, sceneVars, pathVars, nextVersionVars, versionDataVars, thumbVars>>
notCol == <<envVars, p4uVars, pubVars, plugVars, hierVars, sceneVars, pathVars, nextVersionVars, versionDataVars, thumbVars>>
notHier == <<envVars, p4uVars, pubVars, plugVars, colVars, sceneVars, pathVars, nextVersionVars, versionDataVars, thumbVars>>
notScene == <<envVars, p4uVars, pubVars, plugVars, colVars, hierVars, pathVars, nextVersionVars, versionDataVars, thumbVars>>
notPath == <<envVars, p4uVars, pubVars, plugVars, colVars, hierVars, sceneVars, nextVersionVars, versionDataVars, thumbVars>>
notNextVersion == <<envVars, p4uVars, pubVars, plugVars, colVars, hierVars, sceneVars, pathVars, versionDataVars, thumbVars>>
notVersionData == <<envVars, p4uVars, pubVars, plugVars, colVars, hierVars, sceneVars, pathVars, nextVersionVars, thumbVars>>
notThumb == <<envVars, p4uVars, pubVars, plugVars, colVars, hierVars, sceneVars, pathVars, nextVersionVars, versionDataVars>>

\* Python's None, and the marker of a call that has not happened yet.
None == "None"
Unset == "unset"

(***************************************************************************)
(* PickEnvironment                                                         *)
(***************************************************************************)

\* Types of context.source_entity; "Task" stands for any other type.
SourceTypes == {None, "Version", "PublishedFile", "Task"}

\* Types of context.entity; "Shot" stands for any type the hook does not name.
EntityTypes == {"Asset", "CustomEntity01", "CustomEntity03", "Shot"}

\* Values of sg_asset_type; "Props" stands for any other asset type.
AssetTypes == {"Animations", "Campaigns", "Props"}

\* A context as the host builds it: an entity needs a project, a step needs
\* an entity.
Contexts ==
    { c \in [source_entity : SourceTypes, project : BOOLEAN,
             entity : EntityTypes \cup {None}, step : BOOLEAN] :
        /\ (c.entity # None => c.project)
        /\ (c.step => c.entity # None) }

\* What shotgun.find_one returns for the context's entity: the record's
\* sg_asset_parent (linked or not) and sg_asset_type, or None when ShotGrid
\* holds no such entity.
NoRecord == [found |-> FALSE, sg_asset_parent |-> FALSE, sg_asset_type |-> "Props"]
SgRecords ==
    {NoRecord} \cup
    [found : {TRUE}, sg_asset_parent : BOOLEAN, sg_asset_type : AssetTypes]

\* context_entity.get(...) on the result of find_one: a None result has no
\* get, and the call raises AttributeError.
AttributeError == "AttributeError"

\* Lines 43-62: the branch for an entity without a step.
entity_no_step(ctx, rec) ==
    CASE ctx.entity = "Asset" ->
            IF ~rec.found THEN AttributeError
            ELSE IF rec.sg_asset_parent
                 THEN (IF rec.sg_asset_type \in {"Animations"}
                       THEN "special_child" ELSE "asset_child")
                 ELSE "asset"
      [] ctx.entity = "CustomEntity01" -> "env_asset"
      [] ctx.entity = "CustomEntity03" ->
            IF ~rec.found THEN AttributeError
            ELSE IF rec.sg_asset_type = "Campaigns"
                 THEN "pub_asset" ELSE "prod_asset"
      [] OTHER -> None

\* Lines 64-85: the branch for an entity with a step.
entity_step(ctx, rec) ==
    CASE ctx.entity = "Asset" ->
            IF ~rec.found THEN AttributeError
            ELSE IF rec.sg_asset_parent
                 THEN (IF rec.sg_asset_type \in {"Animations"}
                       THEN "special_child_step" ELSE "asset_child_step")
                 ELSE "asset_step"
      [] ctx.entity = "CustomEntity01" -> "env_asset_step"
      [] ctx.entity = "CustomEntity03" ->
            IF ~rec.found THEN AttributeError
            ELSE IF rec.sg_asset_type = "Campaigns"
                 THEN "pub_asset_step" ELSE "prod_asset_step"
      [] OTHER -> None

\* A stale-cache variant of execute: the record of the previous call is used
\* again when the entity type has not changed.
execute_cached(ctx, rec) ==
    LET r == IF env_last # <<>> /\ env_last[1].entity = ctx.entity
             THEN env_last[2] ELSE rec
    IN  IF ctx.entity = None THEN (IF ctx.project THEN "project" ELSE "site")
        ELSE IF ctx.step THEN entity_step(ctx, r) ELSE entity_no_step(ctx, r)

\* A variant of execute that tests the project before the source entity.
execute_project_first(ctx, rec) ==
    IF ~ctx.project THEN "site"
    ELSE IF ctx.source_entity = "Version" THEN "version"
    ELSE IF ctx.source_entity = "PublishedFile" THEN "publishedfile"
    ELSE IF ctx.entity = None THEN "project"
    ELSE IF ctx.step THEN entity_step(ctx, rec) ELSE entity_no_step(ctx, rec)

\* A variant of execute that falls back to the project environment.
execute_fallback(ctx, rec) ==
    LET r == IF ctx.entity = None THEN None
             ELSE IF ctx.step THEN entity_step(ctx, rec)
             ELSE entity_no_step(ctx, rec)
    IN  IF ctx.source_entity = "Version" THEN "version"
        ELSE IF ctx.source_entity = "PublishedFile" THEN "publishedfile"
        ELSE IF ~ctx.project THEN "site"
        ELSE IF r = None THEN "project" ELSE r

\* PickEnvironment.execute, lines 21-87.
execute(ctx, rec) ==
    IF ctx.source_entity = "Version" THEN "version"
    ELSE IF ctx.source_entity = "PublishedFile" THEN "publishedfile"
    ELSE IF ~ctx.project THEN "site"
    ELSE IF ctx.entity = None THEN "project"
    ELSE IF ~ctx.step THEN entity_no_step(ctx, rec)
    ELSE entity_step(ctx, rec)

EnvInit ==
    /\ context \in Contexts
    /\ sg_entity \in SgRecords
    /\ (context.entity = None => sg_entity = NoRecord)
    /\ env_result = Unset
    /\ env_last = <<>>

EnvIdle ==
    /\ context = [source_entity |-> None, project |-> FALSE,
                  entity |-> None, step |-> FALSE]
    /\ sg_entity = NoRecord
    /\ env_result = Unset
    /\ env_last = <<>>

\* The host calls the hook with the current context.
PickEnvironment ==
    /\ env_result' = execute(context, sg_entity)
    /\ env_last' = IF env_result = Unset THEN env_last
                   ELSE <<context, sg_entity, env_result>>
    /\ UNCHANGED <<context, sg_entity>>
    /\ UNCHANGED notEnv

\* The host moves to another context (or the entity's record is edited in
\* ShotGrid) between two calls of the hook.
ChangeContext ==
    /\ env_result # Unset
    /\ env_last = <<>>
    /\ \E c \in Contexts, r \in SgRecords :
          /\ (c.entity = None => r = NoRecord)
          /\ context' = c
          /\ sg_entity' = r
    /\ env_last' = <<context, sg_entity, env_result>>
    /\ env_result' = Unset
    /\ UNCHANGED notEnv

EnvNext ==
    \/ PickEnvironment
    \/ ChangeContext

(***************************************************************************)
(* GetPerforceUser                                                         *)
(***************************************************************************)

\* Perforce user names; None is a field that is set to no value.
P4Users == {None, "jdoe", "asmith"}

\* Ids of the HumanUser entities.
MaxUserId == 2
UserIds == 1..MaxUserId

\* sg_user as handed to the hook: None, an empty dictionary, or a dictionary
\* with an id and perhaps the key sg_p4_user (has_p4_user says whether the
\* key is there; its value may be None).
NoUser == [kind |-> None, id |-> 0, has_p4_user |-> FALSE, sg_p4_user |-> None]
EmptyUser == [kind |-> "empty", id |-> 0, has_p4_user |-> FALSE, sg_p4_user |-> None]
SgUsers ==
    {NoUser, EmptyUser}
        \cup [kind : {"dict"}, id : UserIds, has_p4_user : {FALSE}, sg_p4_user : {None}]
        \cup [kind : {"dict"}, id : UserIds, has_p4_user : {TRUE}, sg_p4_user : P4Users]

\* The HumanUser entities of ShotGrid by id: a record with its sg_p4_user
\* (None when the field is empty), or no record under that id.
NoHumanUser == [found |-> FALSE, sg_p4_user |-> None]
HumanUsers == {NoHumanUser} \cup [found : {TRUE}, sg_p4_user : P4Users]

\* shotgun.find_one("HumanUser", [["id", "is", id]], ["sg_p4_user"]).
find_one_human_user(table, id) == table[id]

\* A variant that asks ShotGrid first, whatever sg_user holds.
get_perforce_user_query_first(u, table) ==
    IF u.kind # "dict" THEN [value |-> None, queries |-> <<>>]
    ELSE LET sg_res == find_one_human_user(table, u.id)
         IN  IF sg_res.found
             THEN [value |-> sg_res.sg_p4_user, queries |-> <<u.id>>]
             ELSE IF u.has_p4_user
             THEN [value |-> u.sg_p4_user, queries |-> <<u.id>>]
             ELSE [value |-> None, queries |-> <<u.id>>]

\* GetPerforceUser.execute, lines 13-34: the returned value and the ids of
\* the find_one calls made on the way.
get_perforce_user(u, table) ==
    IF u.kind # "dict" THEN [value |-> None, queries |-> <<>>]
    ELSE IF u.has_p4_user THEN [value |-> u.sg_p4_user, queries |-> <<>>]
    ELSE LET sg_res == find_one_human_user(table, u.id)
         IN  IF sg_res.found
             THEN [value |-> sg_res.sg_p4_user, queries |-> <<u.id>>]
             ELSE [value |-> None, queries |-> <<u.id>>]

P4UserInit ==
    /\ sg_user \in SgUsers
    /\ human_user \in [UserIds -> HumanUsers]
    /\ p4_result = Unset
    /\ p4_queries = <<>>

P4UserIdle ==
    /\ sg_user = NoUser
    /\ human_user = [i \in UserIds |-> NoHumanUser]
    /\ p4_result = Unset
    /\ p4_queries = <<>>

\* The Perforce framework calls the hook for a ShotGrid user.
GetPerforceUser ==
    /\ p4_result = Unset
    /\ LET r == get_perforce_user(sg_user, human_user)
       IN  /\ p4_result' = r.value
           /\ p4_queries' = r.queries
    /\ UNCHANGED <<sg_user, human_user>>
    /\ UNCHANGED notP4u

\* The framework asks about another user.
NextUser ==
    /\ p4_result # Unset
    /\ sg_user' \in SgUsers
    /\ p4_result' = Unset
    /\ p4_queries' = <<>>
    /\ UNCHANGED human_user
    /\ UNCHANGED notP4u

P4UserNext ==
    \/ GetPerforceUser
    \/ NextUser

(***************************************************************************)
(* The publish phases and PostPhaseHook                                    *)
(***************************************************************************)

\* Items of the publish tree, in the order the tree yields them; item i is
\* the file i of the workspace, collected afresh in every run.
NItems == 2
Items == 1..NItems

\* Publish runs of one dialog, that is of one PostPhaseHook instance.
MaxRuns == 2
Runs == 1..MaxRuns

\* post_phase.py line 68: thread.setMaxThreadCount(1).
maxThreadCount == 1

\* item.properties without publish_data / without sg_publish_data.
NoPublishData == [stored |-> FALSE, dependency_ids |-> {}]
NoSgPublishData ==
    [registered |-> FALSE, version_number |-> 0, sg_p4_change_number |-> 0,
     sg_p4_depo_path |-> 0, code_rev |-> 0, upstream_published_files |-> 0]

\* PostPhaseHook.submission as the class defines it (line 63): [].
NoSubmission == [submittedChange |-> 0, files |-> {}]

\* not self.submission (line 201).
is_empty(s) == s.submittedChange = 0 /\ s.files = {}

\* What submit_change returns for a submitted change: a dictionary per file
\* with its depotFile and rev, and one with the submittedChange.
submit_response(c, revs) ==
    [submittedChange |-> c,
     files |-> {[depotFile |-> f, rev |-> revs[f]] : f \in p4_changes[c].files}]

\* Lines 216-226: changed_files and submitted_change, from self.submission.
read_submission(s) == s

\* Line 256: [i for i in changed_files if i['depotFile'] == depot_path].
change_data(files, depot_path) == {d \in files : d.depotFile = depot_path}

\* Lines 267-268: the parent's sg_publish_data when the parent has one (the
\* item itself stands for its published file; 0: the field is not set).
upstream_never(i) == 0
upstream_published_files(i) ==
    IF parent[i] # 0 /\ sg_publish_data[parent[i]].registered
    THEN parent[i]
    ELSE 0

\* Lines 243-288: item.properties.sg_publish_data after register_publish
\* and the update of the code, for the change_data of the item's depot file.
_update_publish_data(i, data, submitted_change) ==
    [registered |-> TRUE,
     version_number |-> data.rev,
     sg_p4_change_number |-> submitted_change,
     sg_p4_depo_path |-> data.depotFile,
     code_rev |-> data.rev,
     upstream_published_files |-> upstream_published_files(i)]

\* The workers that hold the pool's thread.
running_workers == {c \in Runs : workers[c].status \in {"running", "returned"}}

PubInit ==
    /\ run = 1
    /\ phase = "collect"
    /\ idx = 1
    /\ parent \in {p \in [Items -> 0..NItems] : \A i \in Items : p[i] < i}
    /\ has_task = [i \in Items |-> FALSE]
    /\ publish_data = [i \in Items |-> NoPublishData]
    /\ sg_publish_data = [i \in Items |-> NoSgPublishData]
    /\ finalized = {}
    /\ pp_pc = "idle"
    /\ new_change = 0
    /\ change_items = <<>>
    /\ changed_files = NoSubmission
    /\ p4_changes = [c \in Runs |-> [status |-> "none", files |-> {}]]
    /\ head_rev = [f \in Items |-> 0]
    /\ workers = [c \in Runs |->
                      [status |-> "none", starts |-> 0, submits |-> 0, emits |-> 0]]
    /\ signals = <<>>
    /\ submission = NoSubmission
    /\ invalid_file = 0
    /\ register_calls = <<>>

PubIdle ==
    /\ run = 1
    /\ phase = "collect"
    /\ idx = 1
    /\ parent = [i \in Items |-> 0]
    /\ has_task = [i \in Items |-> FALSE]
    /\ publish_data = [i \in Items |-> NoPublishData]
    /\ sg_publish_data = [i \in Items |-> NoSgPublishData]
    /\ finalized = {}
    /\ pp_pc = "idle"
    /\ new_change = 0
    /\ change_items = <<>>
    /\ changed_files = NoSubmission
    /\ p4_changes = [c \in Runs |-> [status |-> "none", files |-> {}]]
    /\ head_rev = [f \in Items |-> 0]
    /\ workers = [c \in Runs |->
                      [status |-> "none", starts |-> 0, submits |-> 0, emits |-> 0]]
    /\ signals = <<>>
    /\ submission = NoSubmission
    /\ invalid_file = 0
    /\ register_calls = <<>>

\* ---- the host: collect, validate, publish, post_publish, finalize

\* The collector builds the tree of the run afresh; the user checks the
\* publish tasks of some items.
Collect ==
    /\ phase = "collect"
    /\ has_task' \in [Items -> BOOLEAN]
    /\ publish_data' = [i \in Items |-> NoPublishData]
    /\ sg_publish_data' = [i \in Items |-> NoSgPublishData]
    /\ finalized' = {}
    /\ phase' = "validate"
    /\ idx' = 1
    /\ UNCHANGED <<run, parent, hookVars, p4Vars, poolVars>>
    /\ UNCHANGED notPub

\* PublishPlugin.validate of every task: the run goes on to publish when
\* all are valid, and ends when one returns False or raises.
Validate ==
    /\ phase = "validate"
    /\ \E valid \in BOOLEAN :
          phase' = IF valid THEN "publish" ELSE "failed"
    /\ idx' = 1
    /\ UNCHANGED <<run, parent, has_task, publish_data, sg_publish_data, finalized>>
    /\ UNCHANGED <<hookVars, p4Vars, poolVars>>
    /\ UNCHANGED notPub

\* publish_file.py, lines 243-249: the published file of the parent item
\* (the parent stands for it) when the parent has sg_publish_data now.
publish_dependencies_ids(i) ==
    IF parent[i] # 0 /\ sg_publish_data[parent[i]].registered
    THEN {parent[i]}
    ELSE {}

\* PublishPlugin.publish of the task of item idx (lines 215-286): it stores
\* publish_data on the item and registers nothing.
Publish ==
    /\ phase = "publish"
    /\ idx \in Items
    /\ publish_data' = IF has_task[idx]
                       THEN [publish_data EXCEPT ![idx] =
                                [stored |-> TRUE,
                                 dependency_ids |-> publish_dependencies_ids(idx)]]
                       ELSE publish_data
    /\ idx' = idx + 1
    /\ UNCHANGED <<run, phase, parent, has_task, sg_publish_data, finalized>>
    /\ UNCHANGED <<hookVars, p4Vars, poolVars>>
    /\ UNCHANGED notPub

\* The host calls post_publish once every task has published.
EnterPostPublish ==
    /\ phase = "publish"
    /\ idx = NItems + 1
    /\ phase' = "post_publish"
    /\ pp_pc' = "begin"
    /\ idx' = 1
    /\ new_change' = 0
    /\ change_items' = <<>>
    /\ changed_files' = NoSubmission
    /\ invalid_file' = 0
    /\ register_calls' = <<>>
    /\ UNCHANGED <<run, parent, has_task, publish_data, sg_publish_data, finalized>>
    /\ UNCHANGED <<submission, p4Vars, poolVars>>
    /\ UNCHANGED notPub

\* PublishPlugin.finalize of the task of item idx (lines 288-323): it acts
\* on the item when the item has sg_publish_data.
Finalize ==
    /\ phase = "finalize"
    /\ idx \in Items
    /\ finalized' = IF has_task[idx] /\ sg_publish_data[idx].registered
                    THEN finalized \cup {idx} ELSE finalized
    /\ idx' = idx + 1
    /\ phase' = IF idx = NItems THEN "done" ELSE phase
    /\ UNCHANGED <<run, parent, has_task, publish_data, sg_publish_data>>
    /\ UNCHANGED <<hookVars, p4Vars, poolVars>>
    /\ UNCHANGED notPub

\* "Publish again": the dialog keeps its manager and with it the hook
\* instance, clears the tree and starts the next run.
PublishAgain ==
    /\ phase \in {"done", "failed"}
    /\ run < MaxRuns
    /\ run' = run + 1
    /\ phase' = "collect"
    /\ idx' = 1
    /\ pp_pc' = "idle"
    /\ has_task' = [i \in Items |-> FALSE]
    /\ publish_data' = [i \in Items |-> NoPublishData]
    /\ sg_publish_data' = [i \in Items |-> NoSgPublishData]
    /\ finalized' = {}
    /\ UNCHANGED parent
    /\ UNCHANGED <<new_change, change_items, changed_files, submission,
                   invalid_file, register_calls>>
    /\ UNCHANGED <<p4Vars, poolVars>>
    /\ UNCHANGED notPub

\* ---- PostPhaseHook.post_publish, on the GUI thread

\* Lines 97-131: nothing to do when no item has publish_data; otherwise a
\* new changelist is created and change_items starts empty.
PP_Begin ==
    /\ phase = "post_publish" /\ pp_pc = "begin"
    /\ IF \E i \in Items : publish_data[i].stored
       THEN /\ new_change' = run
            /\ p4_changes' = [p4_changes EXCEPT ![run] =
                                 [status |-> "pending", files |-> {}]]
            /\ change_items' = <<>>
            /\ pp_pc' = "add"
       ELSE /\ pp_pc' = "return"
            /\ UNCHANGED <<new_change, p4_changes, change_items>>
    /\ idx' = 1
    /\ UNCHANGED <<run, phase, parent, has_task, publish_data, sg_publish_data,
                   finalized, changed_files, submission, head_rev, poolVars,
                   invalid_file, register_calls>>
    /\ UNCHANGED notPub

\* Lines 133-164, one turn of the loop: an item with publish_data is opened
\* for edit and added to the change, unless open_file_for_edit raises
\* P4InvalidFileNameException, which ends the loop.
PP_AddItem ==
    /\ phase = "post_publish" /\ pp_pc = "add"
    /\ idx \in Items
    /\ IF publish_data[idx].stored
       THEN \E legal \in BOOLEAN :
              IF legal
              THEN /\ p4_changes' = [p4_changes EXCEPT ![new_change].files =
                                        @ \cup {idx}]
                   /\ change_items' = Append(change_items, idx)
                   /\ idx' = idx + 1
                   /\ pp_pc' = IF idx = NItems THEN "start" ELSE "add"
                   /\ UNCHANGED invalid_file
              ELSE /\ pp_pc' = "start"
                   /\ idx' = 1
                   /\ invalid_file' = idx
                   /\ UNCHANGED <<p4_changes, change_items>>
       ELSE /\ idx' = idx + 1
            /\ pp_pc' = IF idx = NItems THEN "start" ELSE "add"
            /\ UNCHANGED <<p4_changes, change_items, invalid_file>>
    /\ UNCHANGED <<run, phase, parent, has_task, publish_data, sg_publish_data,
                   finalized, new_change, changed_files, submission, head_rev,
                   poolVars, register_calls>>
    /\ UNCHANGED notPub

\* Lines 184-198: a ChangeSubmitWorker for new_change is handed to the pool.
PP_StartWorker ==
    /\ phase = "post_publish" /\ pp_pc = "start"
    /\ workers' = [workers EXCEPT ![new_change].status = "queued",
                                  ![new_change].starts = @ + 1]
    /\ pp_pc' = "wait"
    /\ idx' = 1
    /\ UNCHANGED <<run, phase, parent, has_task, publish_data, sg_publish_data,
                   finalized, new_change, change_items, changed_files,
                   submission, p4Vars, signals, invalid_file, register_calls>>
    /\ UNCHANGED notPub

\* Lines 201-226: the loop ends once self.submission is not empty;
\* changed_files and submitted_change are then read from it.
PP_Wait ==
    /\ phase = "post_publish" /\ pp_pc = "wait"
    /\ ~is_empty(submission)
    /\ changed_files' = read_submission(submission)
    /\ pp_pc' = "update"
    /\ idx' = 1
    /\ UNCHANGED <<run, phase, parent, has_task, publish_data, sg_publish_data,
                   finalized, new_change, change_items, submission, p4Vars,
                   poolVars, invalid_file, register_calls>>
    /\ UNCHANGED notPub

\* Lines 231-236 with _update_publish_data (lines 243-288), one turn of the
\* loop: an item of change_items is registered with the revision of its
\* depot file in changed_files; [...][0] raises IndexError when
\* changed_files does not hold the file, and post_publish ends there.
PP_UpdateItem ==
    /\ phase = "post_publish" /\ pp_pc = "update"
    /\ idx \in Items
    /\ IF \E k \in 1..Len(change_items) : change_items[k] = idx
       THEN LET found == change_data(changed_files.files, idx)
            IN  IF found = {}
                THEN /\ phase' = "failed"
                     /\ pp_pc' = "raised"
                     /\ idx' = 1
                     /\ UNCHANGED <<sg_publish_data, register_calls>>
                ELSE /\ sg_publish_data' = [sg_publish_data EXCEPT ![idx] =
                            _update_publish_data(idx, CHOOSE d \in found : TRUE,
                                                 changed_files.submittedChange)]
                     /\ register_calls' = Append(register_calls, idx)
                     /\ idx' = idx + 1
                     /\ pp_pc' = IF idx = NItems THEN "return" ELSE "update"
                     /\ UNCHANGED phase
       ELSE /\ idx' = idx + 1
            /\ pp_pc' = IF idx = NItems THEN "return" ELSE "update"
            /\ UNCHANGED <<phase, sg_publish_data, register_calls>>
    /\ UNCHANGED <<run, parent, has_task, publish_data, finalized, new_change,
                   change_items, changed_files, submission, p4Vars, poolVars,
                   invalid_file>>
    /\ UNCHANGED notPub

\* post_publish returns and the host goes on to finalize.
PP_Return ==
    /\ phase = "post_publish" /\ pp_pc = "return"
    /\ phase' = "finalize"
    /\ pp_pc' = "idle"
    /\ idx' = 1
    /\ UNCHANGED <<run, parent, has_task, publish_data, sg_publish_data, finalized,
                   new_change, change_items, changed_files, submission, p4Vars,
                   poolVars, invalid_file, register_calls>>
    /\ UNCHANGED notPub

\* ---- the thread pool and ChangeSubmitWorker.run, on the pool's thread

\* The pool runs a queued worker when fewer than maxThreadCount are running.
W_Start ==
    /\ \E c \in Runs :
          /\ workers[c].status = "queued"
          /\ Cardinality(running_workers) < maxThreadCount
          /\ workers' = [workers EXCEPT ![c].status = "running"]
    /\ UNCHANGED <<hostVars, hookVars, p4Vars, signals>>
    /\ UNCHANGED notPub

\* Line 48: submit_change submits the worker's change and returns the
\* server's answer, or raises (always so for a change without files).
W_Submit ==
    /\ \E c \in Runs, ok \in BOOLEAN :
          /\ workers[c].status = "running"
          /\ (ok => p4_changes[c].files # {})
          /\ IF ok
             THEN /\ p4_changes' = [p4_changes EXCEPT ![c].status = "submitted"]
                  /\ head_rev' = [f \in Items |->
                                     IF f \in p4_changes[c].files
                                     THEN head_rev[f] + 1 ELSE head_rev[f]]
                  /\ workers' = [workers EXCEPT ![c].status = "returned",
                                                ![c].submits = @ + 1]
             ELSE /\ workers' = [workers EXCEPT ![c].status = "raised",
                                                ![c].submits = @ + 1]
                  /\ UNCHANGED <<p4_changes, head_rev>>
    /\ UNCHANGED <<hostVars, hookVars, signals>>
    /\ UNCHANGED notPub

\* Line 49: the worker emits submission_response with what submit_change
\* returned, and run ends.
W_Emit ==
    /\ \E c \in Runs :
          /\ workers[c].status = "returned"
          /\ signals' = Append(signals, submit_response(c, head_rev))
          /\ workers' = [workers EXCEPT ![c].status = "finished",
                                        ![c].emits = @ + 1]
    /\ UNCHANGED <<hostVars, hookVars, p4Vars>>
    /\ UNCHANGED notPub

\* Lines 91-92 and 195: the signal reaches update_submission_response, in
\* the emitting thread or when the GUI thread processes its events.
update_submission_response ==
    /\ signals # <<>>
    /\ submission' = Head(signals)
    /\ signals' = Tail(signals)
    /\ UNCHANGED <<hostVars, pp_pc, new_change, change_items, changed_files,
                   p4Vars, workers, invalid_file, register_calls>>
    /\ UNCHANGED notPub

PubNext ==
    \/ Collect
    \/ Validate
    \/ Publish
    \/ EnterPostPublish
    \/ Finalize
    \/ PublishAgain
    \/ PP_Begin
    \/ PP_AddItem
    \/ PP_StartWorker
    \/ PP_Wait
    \/ PP_UpdateItem
    \/ PP_Return
    \/ W_Start
    \/ W_Submit
    \/ W_Emit
    \/ update_submission_response

(***************************************************************************)
(* accept and validate of the publish plugins                              *)
(***************************************************************************)

\* A key a dictionary does not hold, a property an item does not have.
Absent == "absent"

\* Python's True and False as the values of a dictionary or of a return.
py_bool(b) == IF b THEN "True" ELSE "False"

\* item.type_spec, as type_spec.split(".") gives it.
FileTypes == {<<"file", "image">>, <<"file", "video">>, <<"file", "maya">>,
              <<"file", "playblast">>}
TypeSpecs == FileTypes \cup {<<"playblast", "video">>,
                             <<"photoshop", "document">>,
                             <<"maya", "session">>,
                             <<"houdini", "session">>,
                             <<"3dsmax", "session">>}

\* The extension of item.properties.path and str.lower on it.
PathExtensions == {"ma", "MA"}
lower == [e \in PathExtensions |-> "ma"]

\* The items the collectors hand to the plugins: a file item has a path and
\* no document, only a Photoshop item may have a document, only a session
\* item depends on the path of the session open in the DCC.
PluginItems ==
    {it \in [type_spec : TypeSpecs,
             p4_action : {"none", "add", "edit", "delete"},
             document : {None, "unsaved", "saved"},
             session_path : {"", "scene.ma"},
             path : {None, "path"},
             extension : PathExtensions,
             item_entity : {None, "Asset A"},
             target_entity : {None, "Asset A", "Asset B"},
             item_task : {"Task 1"},
             target_task : {"Task 1", "Task 2"},
             ignore_bad_stuff : BOOLEAN,
             publish_name : {None, "name"}] :
        /\ (it.type_spec # <<"photoshop", "document">> => it.document = None)
        /\ (it.type_spec[2] # "session" => it.session_path = "")
        /\ (it.type_spec[1] \in {"file", "playblast"} => it.path = "path")}

\* The plugins of hooks/tk-multi-publish2.
Plugins == {"PublishPlugin", "AddPublishPlugin", "UploadVersionPlugin",
            "MayaPerforceFileCheckin", "MayaSessionPublishPlugin",
            "PhotoshopCCDocumentPublishPlugin",
            "PhotoshopUploadVersionPlugin",
            "HoudiniPerforceFileCheckin", "MaxPerforceFileCheckin",
            "PhotoshopCCPerforceFileCheckin"}

\* item_filters of every plugin; "*" is the glob of a filter like "file.*".
item_filters ==
    [p \in Plugins |->
        CASE p = "PublishPlugin" -> {<<"file", "*">>}
          [] p = "AddPublishPlugin" -> {<<"file", "*">>}
          [] p = "MayaPerforceFileCheckin" -> {<<"file", "*">>}
          [] p = "UploadVersionPlugin" ->
                {<<"file", "image">>, <<"file", "video">>, <<"playblast", "*">>}
          [] p = "MayaSessionPublishPlugin" ->
                {<<"maya", "session">>, <<"file", "*">>}
          [] p = "HoudiniPerforceFileCheckin" -> {<<"houdini", "session">>}
          [] p = "MaxPerforceFileCheckin" -> {<<"3dsmax", "session">>}
          [] p = "PhotoshopCCPerforceFileCheckin" ->
                {<<"photoshop", "document">>}
          [] p = "PhotoshopCCDocumentPublishPlugin" ->
                {<<"file", "*">>, <<"photoshop", "document">>}
          [] p = "PhotoshopUploadVersionPlugin" ->
                {<<"file", "image">>, <<"file", "video">>, <<"playblast", "*">>,
                 <<"photoshop", "document">>}]

\* The publisher presents an item to a plugin when its type matches one of
\* the plugin's filters.
presented(p, it) ==
    \E f \in item_filters[p] :
        /\ f[1] = it.type_spec[1]
        /\ f[2] \in {"*", it.type_spec[2]}

\* What a call returns: a dictionary (its 'accepted' and 'checked' keys, or
\* absent), a boolean, None, or an exception that leaves the call.
NoResult == [kind |-> Unset, accepted |-> Absent, checked |-> Absent,
             value |-> Absent]
dict(accepted, checked) == [kind |-> "dict", accepted |-> accepted,
                            checked |-> checked, value |-> Absent]
boolean(v) == [kind |-> "bool", accepted |-> Absent, checked |-> Absent,
               value |-> py_bool(v)]
ReturnsNone == [kind |-> "None", accepted |-> Absent, checked |-> Absent,
                value |-> Absent]
raises(msg) == [kind |-> "raise", accepted |-> Absent, checked |-> Absent,
                value |-> msg]

\* publish_file.py, lines 111-149.
PublishPlugin_accept(it) ==
    IF it.type_spec = <<"file", "playblast">>
    THEN dict("False", Absent)
    ELSE dict("True", Absent)

\* add_file.py, lines 47-84.
AddPublishPlugin_accept(it) ==
    IF it.p4_action # "none" /\ it.p4_action = "add"
    THEN PublishPlugin_accept(it)
    ELSE dict("False", Absent)

\* upload_version.py, lines 108-119; base is the dictionary the accept of the
\* publisher's own upload plugin returns.
UploadVersionPlugin_accept(it, base) ==
    IF it.p4_action # "none" /\ it.p4_action = "delete"
    THEN dict("False", Absent)
    ELSE IF it.type_spec[1] # "playblast"
         THEN [base EXCEPT !.checked = "False"]
         ELSE base

\* check_in_file.py, lines 77-112.
MayaPerforceFileCheckin_accept(it) == dict("True", Absent)

\* tk-maya/publish_file.py, lines 94-148.
MayaSessionPublishPlugin_accept(it) ==
    IF it.type_spec[1] # "playblast"
    THEN dict("True", "True")
    ELSE dict("False", Absent)

\* tk-photoshopcc/publish_file.py, lines 79-126: the else branch calls the
\* base class and returns nothing.
PhotoshopCCDocumentPublishPlugin_accept(it) ==
    IF it.type_spec = <<"photoshop", "document">>
    THEN IF it.document = None
         THEN dict("False", Absent)
         ELSE dict("True", "True")
    ELSE ReturnsNone

\* tk-photoshopcc/upload_version.py, lines 60-107: the same shape.
PhotoshopUploadVersionPlugin_accept(it) ==
    IF it.type_spec = <<"photoshop", "document">>
    THEN IF it.document = None
         THEN dict("False", Absent)
         ELSE dict("True", "True")
    ELSE ReturnsNone

\* A validate in which the ignored warning ends the validation.
PublishPlugin_validate_ignored_first(it) ==
    IF it.path = None
    THEN raises("TypeError")
    ELSE IF it.ignore_bad_stuff
    THEN boolean(TRUE)
    ELSE IF it.item_entity = None /\ it.target_entity = None
    THEN boolean(FALSE)
    ELSE IF it.target_entity # it.item_entity
    THEN boolean(FALSE)
    ELSE IF it.target_task # it.item_task
    THEN raises("Potential bad path!")
    ELSE IF lower[it.extension] # it.extension
    THEN boolean(FALSE)
    ELSE boolean(TRUE)

\* publish_file.py, lines 151-209.
PublishPlugin_validate(it) ==
    IF it.path = None
    THEN raises("TypeError")
    ELSE IF it.item_entity = None /\ it.target_entity = None
    THEN boolean(FALSE)
    ELSE IF it.target_entity # it.item_entity
    THEN boolean(FALSE)
    ELSE IF it.target_task # it.item_task /\ ~it.ignore_bad_stuff
    THEN raises("Potential bad path!")
    ELSE IF lower[it.extension] # it.extension
    THEN boolean(FALSE)
    ELSE boolean(TRUE)

\* check_in_file.py, lines 114-138; editable says whether open_file_for_edit
\* (test_only) goes through.
MayaPerforceFileCheckin_validate(it, editable) ==
    IF editable THEN boolean(TRUE) ELSE raises("P4Exception")

\* upload_version.py, lines 121-141: the value of the base class validation
\* is dropped and the method ends without a return.
UploadVersionPlugin_validate(it, base_valid) == ReturnsNone

\* A validate of the Maya plugin that goes to the base class validation
\* without looking at the session.
MayaSessionPublishPlugin_validate_unchecked(it) ==
    PublishPlugin_validate(it)

\* tk-maya/publish_file.py, lines 150-229.
MayaSessionPublishPlugin_validate(it) ==
    IF it.type_spec = <<"maya", "session">> /\ it.session_path = ""
    THEN raises("The Maya session has not been saved.")
    ELSE PublishPlugin_validate(
             IF it.type_spec = <<"maya", "session">>
             THEN [it EXCEPT !.path = "path"] ELSE it)

\* tk-photoshopcc/publish_file.py, lines 128-193.
PhotoshopCCDocumentPublishPlugin_validate(it) ==
    IF it.type_spec = <<"photoshop", "document">> /\ it.document = None
    THEN raises("KeyError")
    ELSE IF it.type_spec = <<"photoshop", "document">> /\ it.document = "unsaved"
    THEN raises("The Photoshop document has not been saved.")
    ELSE PublishPlugin_validate(
             IF it.type_spec = <<"photoshop", "document">>
             THEN [it EXCEPT !.path = "path"] ELSE it)

\* tk-photoshopcc/upload_version.py, lines 109-135.
PhotoshopUploadVersionPlugin_validate(it) ==
    IF it.type_spec = <<"photoshop", "document">> /\ it.document = None
    THEN raises("KeyError")
    ELSE IF it.type_spec = <<"photoshop", "document">> /\ it.document = "unsaved"
    THEN raises("The Photoshop document has not been saved.")
    ELSE boolean(TRUE)

\* tk-houdini/check_in_workfile.py, lines 69-108, and
\* tk-3dsmax/check_in_workfile.py, lines 54-93: the session is accepted,
\* saved or not.
HoudiniPerforceFileCheckin_accept(it) == dict("True", "True")
MaxPerforceFileCheckin_accept(it) == dict("True", "True")

\* tk-photoshopcc/check_in_workfile.py, lines 53-98.
PhotoshopCCPerforceFileCheckin_accept(it) ==
    IF it.document = None
    THEN dict("False", Absent)
    ELSE dict("True", "True")

\* tk-houdini/check_in_workfile.py, lines 110-147: the base class is the
\* check-in plugin of check_in_file.py.
HoudiniPerforceFileCheckin_validate(it, editable) ==
    IF it.session_path = ""
    THEN raises("The Houdini session has not been saved.")
    ELSE MayaPerforceFileCheckin_validate([it EXCEPT !.path = "path"],
                                          editable)

\* tk-3dsmax/check_in_workfile.py, lines 95-127.
MaxPerforceFileCheckin_validate(it, editable) ==
    IF it.session_path = ""
    THEN raises("The Max session has not been saved.")
    ELSE MayaPerforceFileCheckin_validate([it EXCEPT !.path = "path"],
                                          editable)

\* tk-photoshopcc/check_in_workfile.py, lines 100-139.
PhotoshopCCPerforceFileCheckin_validate(it, editable) ==
    IF it.document = None
    THEN raises("KeyError")
    ELSE IF it.document = "unsaved"
    THEN raises("The Photoshop document has not been saved.")
    ELSE MayaPerforceFileCheckin_validate([it EXCEPT !.path = "path"],
                                          editable)

\* The messages of a session or a document that has not been saved.
NotSaved == {raises("The Maya session has not been saved."),
             raises("The Houdini session has not been saved."),
             raises("The Max session has not been saved."),
             raises("The Photoshop document has not been saved.")}

\* The publisher makes a task, and later validates it, for an item the
\* plugin's accept returned a dictionary with a true 'accepted' for.
accepts(r) == r.kind = "dict" /\ r.accepted = "True"

PlugInit ==
    /\ item \in {it \in PluginItems : ~it.ignore_bad_stuff}
    /\ plugin = Unset
    /\ method = Unset
    /\ result = NoResult
    /\ base_called = FALSE

\* No item is being published.
PlugIdle ==
    /\ item = [type_spec |-> <<"file", "image">>, p4_action |-> "none",
               document |-> None, session_path |-> "", path |-> "path",
               extension |-> "ma", item_entity |-> None,
               target_entity |-> None, item_task |-> "Task 1",
               target_task |-> "Task 1", ignore_bad_stuff |-> FALSE,
               publish_name |-> None]
    /\ plugin = Unset
    /\ method = Unset
    /\ result = NoResult
    /\ base_called = FALSE

\* The publisher calls accept(settings, item) of a plugin and keeps what it
\* returns.
called(p, m, r) ==
    /\ plugin' = p
    /\ method' = m
    /\ result' = r
    /\ UNCHANGED notPlug

AcceptPublishPlugin ==
    /\ presented("PublishPlugin", item)
    /\ called("PublishPlugin", "accept", PublishPlugin_accept(item))
    /\ UNCHANGED item
    /\ base_called' = FALSE

AcceptAddPublishPlugin ==
    /\ presented("AddPublishPlugin", item)
    /\ called("AddPublishPlugin", "accept", AddPublishPlugin_accept(item))
    /\ UNCHANGED item
    /\ base_called' = FALSE

AcceptUploadVersionPlugin ==
    /\ presented("UploadVersionPlugin", item)
    /\ \E base_accepted \in BOOLEAN :
          called("UploadVersionPlugin", "accept",
                 UploadVersionPlugin_accept(
                     item, dict(py_bool(base_accepted), Absent)))
    /\ UNCHANGED item
    /\ base_called' = FALSE

AcceptMayaPerforceFileCheckin ==
    /\ presented("MayaPerforceFileCheckin", item)
    /\ called("MayaPerforceFileCheckin", "accept",
              MayaPerforceFileCheckin_accept(item))
    /\ UNCHANGED item
    /\ base_called' = FALSE

AcceptMayaSessionPublishPlugin ==
    /\ presented("MayaSessionPublishPlugin", item)
    /\ called("MayaSessionPublishPlugin", "accept",
              MayaSessionPublishPlugin_accept(item))
    /\ UNCHANGED item
    /\ base_called' = FALSE

AcceptPhotoshopCCDocumentPublishPlugin ==
    /\ presented("PhotoshopCCDocumentPublishPlugin", item)
    /\ called("PhotoshopCCDocumentPublishPlugin", "accept",
              PhotoshopCCDocumentPublishPlugin_accept(item))
    /\ UNCHANGED item
    /\ base_called' = FALSE

AcceptPhotoshopUploadVersionPlugin ==
    /\ presented("PhotoshopUploadVersionPlugin", item)
    /\ called("PhotoshopUploadVersionPlugin", "accept",
              PhotoshopUploadVersionPlugin_accept(item))
    /\ UNCHANGED item
    /\ base_called' = FALSE

\* The publisher calls validate(settings, item) of the task of an accepted
\* item; AddPublishPlugin has no validate of its own.
ValidatePublishPlugin ==
    /\ \E p \in {"PublishPlugin", "AddPublishPlugin"} :
          /\ presented(p, item)
          /\ accepts(IF p = "PublishPlugin" THEN PublishPlugin_accept(item)
                     ELSE AddPublishPlugin_accept(item))
          /\ called(p, "validate", PublishPlugin_validate(item))
    /\ UNCHANGED item
    /\ base_called' = FALSE

ValidateMayaPerforceFileCheckin ==
    /\ presented("MayaPerforceFileCheckin", item)
    /\ accepts(MayaPerforceFileCheckin_accept(item))
    /\ \E editable \in BOOLEAN :
          called("MayaPerforceFileCheckin", "validate",
                 MayaPerforceFileCheckin_validate(item, editable))
    /\ UNCHANGED item
    /\ base_called' = FALSE

\* Lines 130-140 of upload_version.py give the item a publish_name when it
\* has none, before the base class validation.
ValidateUploadVersionPlugin ==
    /\ presented("UploadVersionPlugin", item)
    /\ \E base_accepted \in BOOLEAN :
          accepts(UploadVersionPlugin_accept(
                      item, dict(py_bool(base_accepted), Absent)))
    /\ \E base_valid \in BOOLEAN :
          called("UploadVersionPlugin", "validate",
                 UploadVersionPlugin_validate(item, base_valid))
    /\ item' = IF item.publish_name = None
               THEN [item EXCEPT !.publish_name = "name"]
               ELSE item
    /\ base_called' = TRUE

ValidateMayaSessionPublishPlugin ==
    /\ presented("MayaSessionPublishPlugin", item)
    /\ accepts(MayaSessionPublishPlugin_accept(item))
    /\ called("MayaSessionPublishPlugin", "validate",
              MayaSessionPublishPlugin_validate(item))
    /\ item' = IF item.type_spec = <<"maya", "session">>
                  /\ item.session_path # ""
               THEN [item EXCEPT !.path = "path"]
               ELSE item
    /\ base_called' = ~(item.type_spec = <<"maya", "session">>
                          /\ item.session_path = "")

ValidatePhotoshopCCDocumentPublishPlugin ==
    /\ presented("PhotoshopCCDocumentPublishPlugin", item)
    /\ accepts(PhotoshopCCDocumentPublishPlugin_accept(item))
    /\ called("PhotoshopCCDocumentPublishPlugin", "validate",
              PhotoshopCCDocumentPublishPlugin_validate(item))
    /\ item' = IF item.type_spec = <<"photoshop", "document">>
                  /\ item.document = "saved"
               THEN [item EXCEPT !.path = "path"]
               ELSE item
    /\ base_called' = ~(item.type_spec = <<"photoshop", "document">>
                          /\ item.document # "saved")

ValidatePhotoshopUploadVersionPlugin ==
    /\ presented("PhotoshopUploadVersionPlugin", item)
    /\ accepts(PhotoshopUploadVersionPlugin_accept(item))
    /\ called("PhotoshopUploadVersionPlugin", "validate",
              PhotoshopUploadVersionPlugin_validate(item))
    /\ UNCHANGED item
    /\ base_called' = FALSE

AcceptHoudiniPerforceFileCheckin ==
    /\ presented("HoudiniPerforceFileCheckin", item)
    /\ called("HoudiniPerforceFileCheckin", "accept",
              HoudiniPerforceFileCheckin_accept(item))
    /\ UNCHANGED item
    /\ base_called' = FALSE

AcceptMaxPerforceFileCheckin ==
    /\ presented("MaxPerforceFileCheckin", item)
    /\ called("MaxPerforceFileCheckin", "accept",
              MaxPerforceFileCheckin_accept(item))
    /\ UNCHANGED item
    /\ base_called' = FALSE

AcceptPhotoshopCCPerforceFileCheckin ==
    /\ presented("PhotoshopCCPerforceFileCheckin", item)
    /\ called("PhotoshopCCPerforceFileCheckin", "accept",
              PhotoshopCCPerforceFileCheckin_accept(item))
    /\ UNCHANGED item
    /\ base_called' = FALSE

\* The check-in plugins of the DCCs put the path of a saved session on the
\* item and go on to the base class validation.
ValidateHoudiniPerforceFileCheckin ==
    /\ presented("HoudiniPerforceFileCheckin", item)
    /\ accepts(HoudiniPerforceFileCheckin_accept(item))
    /\ \E editable \in BOOLEAN :
          called("HoudiniPerforceFileCheckin", "validate",
                 HoudiniPerforceFileCheckin_validate(item, editable))
    /\ item' = IF item.session_path # ""
               THEN [item EXCEPT !.path = "path"] ELSE item
    /\ base_called' = (item.session_path # "")

ValidateMaxPerforceFileCheckin ==
    /\ presented("MaxPerforceFileCheckin", item)
    /\ accepts(MaxPerforceFileCheckin_accept(item))
    /\ \E editable \in BOOLEAN :
          called("MaxPerforceFileCheckin", "validate",
                 MaxPerforceFileCheckin_validate(item, editable))
    /\ item' = IF item.session_path # ""
               THEN [item EXCEPT !.path = "path"] ELSE item
    /\ base_called' = (item.session_path # "")

ValidatePhotoshopCCPerforceFileCheckin ==
    /\ presented("PhotoshopCCPerforceFileCheckin", item)
    /\ accepts(PhotoshopCCPerforceFileCheckin_accept(item))
    /\ \E editable \in BOOLEAN :
          called("PhotoshopCCPerforceFileCheckin", "validate",
                 PhotoshopCCPerforceFileCheckin_validate(item, editable))
    /\ item' = IF item.document = "saved"
               THEN [item EXCEPT !.path = "path"] ELSE item
    /\ base_called' = (item.document = "saved")

\* publish_file.py, lines 211-213: the user presses the Ignore button the
\* warning of validate offered.
_ignore_warning ==
    /\ method = "validate"
    /\ result = raises("Potential bad path!")
    /\ item' = [item EXCEPT !.ignore_bad_stuff = TRUE]
    /\ UNCHANGED <<plugin, method, result, base_called>>
    /\ UNCHANGED notPlug

PlugNext ==
    \/ AcceptPublishPlugin
    \/ AcceptAddPublishPlugin
    \/ AcceptUploadVersionPlugin
    \/ AcceptMayaPerforceFileCheckin
    \/ AcceptMayaSessionPublishPlugin
    \/ AcceptPhotoshopCCDocumentPublishPlugin
    \/ AcceptPhotoshopUploadVersionPlugin
    \/ ValidatePublishPlugin
    \/ ValidateMayaPerforceFileCheckin
    \/ ValidateUploadVersionPlugin
    \/ ValidateMayaSessionPublishPlugin
    \/ ValidatePhotoshopCCDocumentPublishPlugin
    \/ ValidatePhotoshopUploadVersionPlugin
    \/ AcceptHoudiniPerforceFileCheckin
    \/ AcceptMaxPerforceFileCheckin
    \/ AcceptPhotoshopCCPerforceFileCheckin
    \/ ValidateHoudiniPerforceFileCheckin
    \/ ValidateMaxPerforceFileCheckin
    \/ ValidatePhotoshopCCPerforceFileCheckin
    \/ _ignore_warning

(***************************************************************************)
(* The collector's classification of a file                                *)
(***************************************************************************)

\* The table with "spm" listed under both SpeedTree entries.
common_file_info_twice == <<
    [display |-> "Alembic Cache",
     extensions |-> {"abc"},
     icon |-> "alembic.png", item_type |-> "file.alembic", item_priority |-> 0],
    [display |-> "3dsmax Scene",
     extensions |-> {"max"},
     icon |-> "3dsmax.png", item_type |-> "file.3dsmax", item_priority |-> 10],
    [display |-> "Houdini Scene",
     extensions |-> {"hip", "hipnc"},
     icon |-> "houdini.png", item_type |-> "file.houdini", item_priority |-> 10],
    [display |-> "Maya Scene",
     extensions |-> {"ma", "mb"},
     icon |-> "maya.png", item_type |-> "file.maya", item_priority |-> 10],
    [display |-> "Motion Builder FBX",
     extensions |-> {"fbx"},
     icon |-> "geometry.png", item_type |-> "file.motionbuilder", item_priority |-> 3],
    [display |-> "Photoshop Image",
     extensions |-> {"psd", "psb"},
     icon |-> "photoshop.png", item_type |-> "file.photoshop", item_priority |-> 5],
    [display |-> "Texture Image",
     extensions |-> {"tif", "tiff", "tx", "tga", "dds", "rat", "exr", "hdr"},
     icon |-> "texture.png", item_type |-> "file.texture", item_priority |-> 0],
    [display |-> "PDF",
     extensions |-> {"pdf"},
     icon |-> "file.png", item_type |-> "file.image", item_priority |-> 0],
    [display |-> "Image",
     extensions |-> {"png", "jpg", "gif"},
     icon |-> "file.png", item_type |-> "file.image", item_priority |-> 0],
    [display |-> "SpeedTree Modeler",
     extensions |-> {"spm"},
     icon |-> "speedtree.png", item_type |-> "file.speedtree", item_priority |-> 10],
    [display |-> "SpeedTree Export",
     extensions |-> {"st9", "st", "spm"},
     icon |-> "speedtree.png", item_type |-> "file.speedtree", item_priority |-> 5],
    [display |-> "Settings File",
     extensions |-> {"pkl", "json"},
     icon |-> "file.png", item_type |-> "file.settings", item_priority |-> 3],
    [display |-> "Mel Scripts",
     extensions |-> {"mel"},
     icon |-> "file.png", item_type |-> "script.maya", item_priority |-> 0],
    [display |-> "Python Scripts",
     extensions |-> {"py", "pyc"},
     icon |-> "file.png", item_type |-> "script.python", item_priority |-> 0],
    [display |-> "Movie",
     extensions |-> {"mov", "avi", "mp4", "mpeg", "h264"},
     icon |-> "video.png", item_type |-> "file.video", item_priority |-> 0],
    [display |-> "Substance Designer",
     extensions |-> {"sbs"},
     icon |-> "substance_designer.png", item_type |-> "file.substance", item_priority |-> 7],
    [display |-> "Substance Painter",
     extensions |-> {"spp"},
     icon |-> "substance_painter.png", item_type |-> "file.substance", item_priority |-> 9],
    [display |-> "Zbrush Tool",
     extensions |-> {"ztl"},
     icon |-> "zbrush.png", item_type |-> "file.zbrush", item_priority |-> 5]
>>

\* collector.py, lines 85-192: the common file types in the order the source
\* lists them; an icon stands for the path _get_icon_path gives for it.
common_file_info == <<
    [display |-> "Alembic Cache",
     extensions |-> {"abc"},
     icon |-> "alembic.png", item_type |-> "file.alembic", item_priority |-> 0],
    [display |-> "3dsmax Scene",
     extensions |-> {"max"},
     icon |-> "3dsmax.png", item_type |-> "file.3dsmax", item_priority |-> 10],
    [display |-> "Houdini Scene",
     extensions |-> {"hip", "hipnc"},
     icon |-> "houdini.png", item_type |-> "file.houdini", item_priority |-> 10],
    [display |-> "Maya Scene",
     extensions |-> {"ma", "mb"},
     icon |-> "maya.png", item_type |-> "file.maya", item_priority |-> 10],
    [display |-> "Motion Builder FBX",
     extensions |-> {"fbx"},
     icon |-> "geometry.png", item_type |-> "file.motionbuilder", item_priority |-> 3],
    [display |-> "Photoshop Image",
     extensions |-> {"psd", "psb"},
     icon |-> "photoshop.png", item_type |-> "file.photoshop", item_priority |-> 5],
    [display |-> "Texture Image",
     extensions |-> {"tif", "tiff", "tx", "tga", "dds", "rat", "exr", "hdr"},
     icon |-> "texture.png", item_type |-> "file.texture", item_priority |-> 0],
    [display |-> "PDF",
     extensions |-> {"pdf"},
     icon |-> "file.png", item_type |-> "file.image", item_priority |-> 0],
    [display |-> "Image",
     extensions |-> {"png", "jpg", "gif"},
     icon |-> "file.png", item_type |-> "file.image", item_priority |-> 0],
    [display |-> "SpeedTree Modeler",
     extensions |-> {"spm"},
     icon |-> "speedtree.png", item_type |-> "file.speedtree", item_priority |-> 10],
    [display |-> "SpeedTree Export",
     extensions |-> {"st9", "st"},
     icon |-> "speedtree.png", item_type |-> "file.speedtree", item_priority |-> 5],
    [display |-> "Settings File",
     extensions |-> {"pkl", "json"},
     icon |-> "file.png", item_type |-> "file.settings", item_priority |-> 3],
    [display |-> "Mel Scripts",
     extensions |-> {"mel"},
     icon |-> "file.png", item_type |-> "script.maya", item_priority |-> 0],
    [display |-> "Python Scripts",
     extensions |-> {"py", "pyc"},
     icon |-> "file.png", item_type |-> "script.python", item_priority |-> 0],
    [display |-> "Movie",
     extensions |-> {"mov", "avi", "mp4", "mpeg", "h264"},
     icon |-> "video.png", item_type |-> "file.video", item_priority |-> 0],
    [display |-> "Substance Designer",
     extensions |-> {"sbs"},
     icon |-> "substance_designer.png", item_type |-> "file.substance", item_priority |-> 7],
    [display |-> "Substance Painter",
     extensions |-> {"spp"},
     icon |-> "substance_painter.png", item_type |-> "file.substance", item_priority |-> 9],
    [display |-> "Zbrush Tool",
     extensions |-> {"ztl"},
     icon |-> "zbrush.png", item_type |-> "file.zbrush", item_priority |-> 5]
>>


\* The keys of the table.
Entries == 1..Len(common_file_info)

\* The extensions the table lists, and extensions it does not list: an
\* upper-case spelling, files mimetypes knows, a file it does not, and a
\* path without an extension.
ListedExtensions == UNION {common_file_info[i].extensions : i \in Entries}
UnlistedExtensions == {"PSD", "txt", "wav", "zip", "xyz", ""}
Extensions == ListedExtensions \cup UnlistedExtensions

\* The part before the "/" of what mimetypes.guess_type returns, None when
\* it finds no type, and str.title on it.
Categories == {"image", "video", "audio", "text", "application"}
title == [c \in Categories |->
             CASE c = "image" -> "Image"
               [] c = "video" -> "Video"
               [] c = "audio" -> "Audio"
               [] c = "text" -> "Text"
               [] c = "application" -> "Application"]

\* Orders in which "for display in self.common_file_info" may yield the
\* keys of the dictionary: the source order, its rotations, and each of
\* them reversed, so that every two entries are visited both ways round.
rotation(k) == [i \in Entries |-> ((i + k - 1) % Len(common_file_info)) + 1]
reversed(o) == [i \in Entries |-> o[Len(common_file_info) + 1 - i]]
VisitOrders == {rotation(k) : k \in 0..(Len(common_file_info) - 1)}
               \cup {reversed(rotation(k)) : k \in 0..(Len(common_file_info) - 1)}

\* No call of _get_item_info has returned yet.
NoItemInfo == [item_type |-> Unset, type_display |-> Unset,
               icon_path |-> Unset, extension |-> Unset,
               item_priority |-> 0]

\* collector.py, lines 508-593: the first entry, in visiting order, that
\* lists the extension; without one the mimetype category; without that the
\* defaults.
_get_item_info(ext, category, order) ==
    LET hits == {n \in Entries : ext \in common_file_info[order[n]].extensions}
    IN  IF hits # {}
        THEN LET first == CHOOSE n \in hits : \A m \in hits : n <= m
                 type_info == common_file_info[order[first]]
             IN  [item_type |-> type_info.item_type,
                  type_display |-> type_info.display,
                  icon_path |-> type_info.icon,
                  extension |-> ext,
                  item_priority |-> type_info.item_priority]
        ELSE IF category # None
        THEN [item_type |-> "file." \o category,
              type_display |-> title[category] \o " File",
              icon_path |-> category \o ".png",
              extension |-> ext,
              item_priority |-> 0]
        ELSE [item_type |-> "file.unknown",
              type_display |-> "File",
              icon_path |-> "file.png",
              extension |-> ext,
              item_priority |-> 0]

ColInit ==
    /\ extension \in Extensions
    /\ category_type \in Categories \cup {None}
    /\ visit_order \in VisitOrders
    /\ item_info = NoItemInfo

\* The collector is not classifying a file.
ColIdle ==
    /\ extension = ""
    /\ category_type = None
    /\ visit_order = rotation(0)
    /\ item_info = NoItemInfo

\* _collect_item_info calls _get_item_info(path) (line 499).
GetItemInfo ==
    /\ item_info = NoItemInfo
    /\ item_info' = _get_item_info(extension, category_type, visit_order)
    /\ UNCHANGED <<extension, category_type, visit_order>>
    /\ UNCHANGED notCol

\* The collector goes on to the next file of the folder; the dictionary
\* keeps its order.
NextFile ==
    /\ item_info # NoItemInfo
    /\ extension' \in Extensions
    /\ category_type' \in Categories \cup {None}
    /\ item_info' = NoItemInfo
    /\ UNCHANGED visit_order
    /\ UNCHANGED notCol

ColNext ==
    \/ GetItemInfo
    \/ NextFile

(***************************************************************************)
(* The collector's hierarchy of items                                      *)
(***************************************************************************)

\* The files a folder may hold, by characters of os.path.basename of their
\* item_path, with the priority the table gives their extension: "m" stands
\* for a scene (10), "p" for a Photoshop image (5), "g" for an image (0).
Files == <<
    [item_path |-> <<"c", ".", "m">>, item_priority |-> 10],
    [item_path |-> <<"c", "r", ".", "p">>, item_priority |-> 5],
    [item_path |-> <<"c", "r", "t", ".", "g">>, item_priority |-> 0],
    [item_path |-> <<"r", ".", "m">>, item_priority |-> 10],
    [item_path |-> <<"t", ".", "g">>, item_priority |-> 0],
    [item_path |-> <<"p", ".", "m">>, item_priority |-> 10]
>>
FileIds == 1..Len(Files)

\* The longest list of item_infos _process_hierarchy is given.
MaxInfos == 3

\* Lists of item_infos of distinct files, at most MaxInfos long.
InfoLists ==
    UNION {{l \in [1..n -> FileIds] : \A a, b \in 1..n : a # b => l[a] # l[b]}
           : n \in 0..MaxInfos}

\* a in b, for strings as sequences of characters.
is_in(a, b) ==
    \E k \in 0..(Len(b) - Len(a)) : SubSeq(b, k + 1, k + Len(a)) = a

\* os.path.basename(item_path).split('.')[0]: the file name up to its first
\* dot.
RECURSIVE split_first(_)
split_first(name) ==
    IF name = <<>> \/ Head(name) = "."
    THEN <<>>
    ELSE <<Head(name)>> \o split_first(Tail(name))

item_name(f) == split_first(Files[f].item_path)
priority(f) == Files[f].item_priority

\* sorted(item_infos, key=item_priority, reverse=True): a stable sort, items
\* of one priority keep their order.
RECURSIVE insert_sorted(_, _)
insert_sorted(done, f) ==
    IF done = <<>> THEN <<f>>
    ELSE IF priority(Head(done)) >= priority(f)
         THEN <<Head(done)>> \o insert_sorted(Tail(done), f)
         ELSE <<f>> \o done

RECURSIVE sorted(_)
sorted(l) ==
    IF l = <<>> THEN <<>>
    ELSE insert_sorted(sorted(SubSeq(l, 1, Len(l) - 1)), l[Len(l)])

\* list.remove(x): the list without its first x.
RECURSIVE remove(_, _)
remove(l, x) ==
    IF l = <<>> THEN <<>>
    ELSE IF Head(l) = x THEN Tail(l)
         ELSE <<Head(l)>> \o remove(Tail(l), x)

contains(l, x) == \E n \in 1..Len(l) : l[n] = x

\* [f(x) for x in l], for the names of the items of a list.
RECURSIVE names_of(_)
names_of(l) ==
    IF l = <<>> THEN <<>> ELSE <<item_name(Head(l))>> \o names_of(Tail(l))

\* Line 720: the names of the items still in item_infos whose priority is
\* above the lower item's.
other_parents(infos, lower_item) ==
    LET is_higher(x) == priority(x) > priority(lower_item)
    IN  names_of(SelectSeq(infos, is_higher))

\* Lines 723-730: does another remaining parent match the lower item's name
\* with a longer name than this parent's?
better_item(others, parent_item, lower_item) ==
    \E n \in 1..Len(others) :
        /\ is_in(others[n], item_name(lower_item))
        /\ Len(others[n]) > Len(item_name(parent_item))

HierInit ==
    /\ hier_input \in InfoLists
    /\ item_infos = hier_input
    /\ parent_items = <<>>
    /\ parent_idx = 0
    /\ lower_items = <<>>
    /\ lower_idx = 0
    /\ children = [f \in FileIds |-> <<>>]
    /\ hier_pc = "start"

\* The collector is not building a hierarchy.
HierIdle ==
    /\ hier_input = <<>>
    /\ item_infos = <<>>
    /\ parent_items = <<>>
    /\ parent_idx = 0
    /\ lower_items = <<>>
    /\ lower_idx = 0
    /\ children = [f \in FileIds |-> <<>>]
    /\ hier_pc = "idle"

\* Lines 709-713: the list is sorted and the outer loop runs over a copy of
\* it.
PH_Sort ==
    /\ hier_pc = "start"
    /\ item_infos' = sorted(item_infos)
    /\ parent_items' = sorted(item_infos)
    /\ parent_idx' = 1
    /\ hier_pc' = "outer"
    /\ UNCHANGED <<hier_input, lower_items, lower_idx, children>>
    /\ UNCHANGED notHier

\* Lines 713-715: the next parent_item of the copy, and the items still in
\* item_infos whose priority is below its priority.
PH_NextParent ==
    /\ hier_pc = "outer"
    /\ parent_idx <= Len(parent_items)
    /\ LET is_lower(x) == priority(x) < priority(parent_items[parent_idx])
       IN  lower_items' = SelectSeq(item_infos, is_lower)
    /\ lower_idx' = 1
    /\ hier_pc' = "inner"
    /\ UNCHANGED <<hier_input, item_infos, parent_items, parent_idx, children>>
    /\ UNCHANGED notHier

\* Lines 716-736, one turn of the inner loop: a lower item whose file name
\* holds the parent's name is appended to the parent's children and removed
\* from item_infos unless a better parent remains; other_parent_items.remove
\* raises ValueError when the parent's name is not in the list.
PH_LowerItem ==
    /\ hier_pc = "inner"
    /\ lower_idx <= Len(lower_items)
    /\ LET parent_item == parent_items[parent_idx]
           lower_item == lower_items[lower_idx]
           others == other_parents(item_infos, lower_item)
       IN  IF ~is_in(item_name(parent_item), Files[lower_item].item_path)
           THEN /\ lower_idx' = lower_idx + 1
                /\ UNCHANGED <<item_infos, children, hier_pc>>
           ELSE IF ~contains(others, item_name(parent_item))
           THEN /\ hier_pc' = "raised"
                /\ UNCHANGED <<item_infos, children, lower_idx>>
           ELSE IF better_item(remove(others, item_name(parent_item)),
                               parent_item, lower_item)
           THEN /\ lower_idx' = lower_idx + 1
                /\ UNCHANGED <<item_infos, children, hier_pc>>
           ELSE /\ children' = [children EXCEPT
                                   ![parent_item] = Append(@, lower_item)]
                /\ item_infos' = remove(item_infos, lower_item)
                /\ lower_idx' = lower_idx + 1
                /\ UNCHANGED hier_pc
    /\ UNCHANGED <<hier_input, parent_items, parent_idx, lower_items>>
    /\ UNCHANGED notHier

\* Line 716: the inner loop is over, the outer loop goes on.
PH_EndParent ==
    /\ hier_pc = "inner"
    /\ lower_idx > Len(lower_items)
    /\ parent_idx' = parent_idx + 1
    /\ hier_pc' = "outer"
    /\ UNCHANGED <<hier_input, item_infos, parent_items, lower_items,
                   lower_idx, children>>
    /\ UNCHANGED notHier

\* Line 738: return item_infos.
PH_Return ==
    /\ hier_pc = "outer"
    /\ parent_idx > Len(parent_items)
    /\ hier_pc' = "done"
    /\ UNCHANGED <<hier_input, item_infos, parent_items, parent_idx,
                   lower_items, lower_idx, children>>
    /\ UNCHANGED notHier

HierNext ==
    \/ PH_Sort
    \/ PH_NextParent
    \/ PH_LowerItem
    \/ PH_EndParent
    \/ PH_Return

(***************************************************************************)
(* The scene operation hooks of tk-multi-workfiles2                        *)
(***************************************************************************)

\* The operations workfiles2 asks a scene operation hook for.
Operations == {"current_path", "open", "save", "save_as", "reset",
               "prepare_new"}

\* The Perforce action of file_path in the workspace: None for a file that
\* is not opened in Perforce.
FileActions == {None, "edit", "add"}

SceneInit ==
    /\ operation \in Operations
    /\ file_action \in FileActions
    /\ answer \in {"Yes", "No"}
    /\ active_document \in {None, "document"}
    /\ base_class = Unset
    /\ prompted = FALSE
    /\ checked_out = FALSE
    /\ so_pc = "called"
    /\ so_result = Unset

\* No scene operation is asked for.
SceneIdle ==
    /\ operation = "reset"
    /\ file_action = None
    /\ answer = "No"
    /\ active_document = None
    /\ base_class = Unset
    /\ prompted = FALSE
    /\ checked_out = FALSE
    /\ so_pc = "idle"
    /\ so_result = Unset

\* scene_operation_tk-photoshopcc.py, lines 70-72, calling execute of
\* scene_operation_perforce.py: its first statement (line 62) is "return
\* True", so lines 63-126 (the connection, the checkout prompt of "open",
\* the overwrite prompt of "save_as") are never reached, whatever the
\* operation and the file.
SO_Base ==
    /\ so_pc = "called"
    /\ base_class' = "True"
    /\ so_pc' = "base"
    /\ UNCHANGED <<operation, file_action, answer, active_document, prompted,
                   checked_out, so_result>>
    /\ UNCHANGED notScene

\* scene_operation_tk-photoshopcc.py, lines 74-126: Photoshop does the
\* operation; save and save_as raise TankError without an active document,
\* and only current_path and reset return a value.
SO_Photoshop ==
    /\ so_pc = "base"
    /\ IF base_class # "True"
       THEN /\ so_result' = "False"
            /\ UNCHANGED active_document
       ELSE CASE operation = "current_path" ->
                    /\ so_result' = IF active_document = None
                                    THEN "" ELSE active_document
                    /\ UNCHANGED active_document
              [] operation = "open" ->
                    /\ active_document' = "file_path"
                    /\ so_result' = None
              [] operation = "save" ->
                    /\ so_result' = IF active_document = None
                                    THEN "TankError" ELSE None
                    /\ UNCHANGED active_document
              [] operation = "save_as" ->
                    /\ so_result' = IF active_document = None
                                    THEN "TankError" ELSE None
                    /\ active_document' = IF active_document = None
                                          THEN None ELSE "file_path"
              [] operation = "reset" ->
                    /\ so_result' = "True"
                    /\ UNCHANGED active_document
              [] operation = "prepare_new" ->
                    /\ active_document' = "document"
                    /\ so_result' = None
    /\ so_pc' = "returned"
    /\ UNCHANGED <<operation, file_action, answer, base_class, prompted,
                   checked_out>>
    /\ UNCHANGED notScene

\* workfiles2 asks for the next operation, on a file of any Perforce
\* action, from a user of any mind.
SO_NextCall ==
    /\ so_pc = "returned"
    /\ operation' \in Operations
    /\ file_action' \in FileActions
    /\ answer' \in {"Yes", "No"}
    /\ base_class' = Unset
    /\ prompted' = FALSE
    /\ checked_out' = FALSE
    /\ so_pc' = "called"
    /\ so_result' = Unset
    /\ UNCHANGED active_document
    /\ UNCHANGED notScene

SceneNext ==
    \/ SO_Base
    \/ SO_Photoshop
    \/ SO_NextCall

(***************************************************************************)
(* BasicPathInfo: publish names and version paths                          *)
(***************************************************************************)

\* Strings are sequences of characters; file names are made of these, with
\* at most MaxLen of them.
Chars == {"a", "v", "V", "1", ".", "_"}
MaxLen == 4
FileNames == UNION {[1..n -> Chars] : n \in 1..MaxLen}

\* The folders of the paths, and the versions asked for.
Folders == {<<>>, <<"d">>}
MaxVersion == 2
Versions == 1..MaxVersion

\* What the regular expressions tell apart: [._-], \d, and "v" whatever its
\* case (re.IGNORECASE).
Separators == {".", "_", "-"}
Digits == {"0", "1", "2", "3", "4", "5", "6", "7", "8", "9"}
is_v(c) == c \in {"v", "V"}
no_dot(s) == \A n \in 1..Len(s) : s[n] # "."
all_digits(s) == \A n \in 1..Len(s) : s[n] \in Digits

\* str(version) of a non-negative integer.
digit_char == [d \in 0..9 |->
                  CASE d = 0 -> "0" [] d = 1 -> "1" [] d = 2 -> "2"
                    [] d = 3 -> "3" [] d = 4 -> "4" [] d = 5 -> "5"
                    [] d = 6 -> "6" [] d = 7 -> "7" [] d = 8 -> "8"
                    [] d = 9 -> "9"]
RECURSIVE str(_)
str(n) == IF n < 10 THEN <<digit_char[n]>>
          ELSE str(n \div 10) \o <<digit_char[n % 10]>>

\* The place of the last c in s, 0 when s has none.
last_index(s, c) ==
    IF \E n \in 1..Len(s) : s[n] = c
    THEN CHOOSE n \in 1..Len(s) :
             /\ s[n] = c
             /\ \A m \in (n + 1)..Len(s) : s[m] # c
    ELSE 0

\* os.path.join(folder, filename), and the folder and filename that
\* publisher.util.get_file_path_components finds in a path.
join(folder, filename) ==
    IF folder = <<>> THEN filename ELSE folder \o <<"/">> \o filename
get_file_path_components(path) ==
    LET k == last_index(path, "/")
    IN  [folder |-> SubSeq(path, 1, k - 1),
         filename |-> SubSeq(path, k + 1, Len(path))]

\* os.path.splitext: the extension starts at the last dot, unless only dots
\* come before it.
splitext(filename) ==
    LET k == last_index(filename, ".")
    IN  IF k > 0 /\ \E n \in 1..(k - 1) : filename[n] # "."
        THEN <<SubSeq(filename, 1, k - 1), SubSeq(filename, k, Len(filename))>>
        ELSE <<filename, <<>>>>

\* Line 24, re.search(VERSION_REGEX, filename): (.*)([._-])v(\d+)\.?([^.]+)?$
\* matches when a separator, a "v" and a digit are followed up to the end
\* by digits, at most one dot, and characters that are not dots.
version_tail(t) ==
    \/ no_dot(t)
    \/ \E k \in 1..Len(t) :
          /\ t[k] = "."
          /\ all_digits(SubSeq(t, 1, k - 1))
          /\ no_dot(SubSeq(t, k + 1, Len(t)))
VERSION_REGEX(filename) ==
    \E n \in 1..(Len(filename) - 2) :
        /\ filename[n] \in Separators
        /\ is_v(filename[n + 1])
        /\ filename[n + 2] \in Digits
        /\ version_tail(SubSeq(filename, n + 3, Len(filename)))

\* Line 30, re.search(FRAME_REGEX, filename): (.*)([._-])(\d+)\.([^.]+)$
\* matches when a separator and digits come right before the last dot and
\* an extension follows it; the greedy (.*) leaves the frame the digits
\* after the last separator it can end at. The place of the separator, 0
\* without a match.
FRAME_REGEX(filename) ==
    LET k == last_index(filename, ".")
        seps == {n \in 1..(k - 2) :
                    /\ filename[n] \in Separators
                    /\ all_digits(SubSeq(filename, n + 1, k - 1))}
    IN  IF k > 0 /\ k < Len(filename) /\ seps # {}
        THEN CHOOSE n \in seps : \A m \in seps : m <= n
        ELSE 0

\* "#" * len(frame).
RECURSIVE hashes(_)
hashes(n) == IF n = 0 THEN <<>> ELSE <<"#">> \o hashes(n - 1)

\* path_info.py, lines 38-85.
get_publish_name(path, sequence) ==
    LET filename == get_file_path_components(path).filename
        sep == FRAME_REGEX(filename)
        dot == last_index(filename, ".")
    IN  IF sep > 0 /\ sequence
        THEN SubSeq(filename, 1, sep - 1)
                 \o <<filename[sep]>>
                 \o hashes(dot - sep - 1)
                 \o <<".">>
                 \o SubSeq(filename, dot + 1, Len(filename))
        ELSE filename

\* A get_version_path that inserts the version whatever the file name holds.
get_version_path_always(path, version) ==
    LET path_info == get_file_path_components(path)
        parts == splitext(path_info.filename)
    IN  join(path_info.folder,
             parts[1] \o <<".", "v">> \o str(version) \o parts[2])

\* path_info.py, lines 87-125.
get_version_path(path, version) ==
    LET path_info == get_file_path_components(path)
        filename == path_info.filename
        parts == splitext(filename)
    IN  IF VERSION_REGEX(filename)
        THEN path
        ELSE join(path_info.folder,
                  parts[1] \o <<".", "v">> \o str(version) \o parts[2])

\* No call yet, and no second call.
NoCall == [fn |-> Unset, version |-> 0, sequence |-> FALSE, value |-> <<>>]

PathInit ==
    /\ util_path \in {join(d, f) : d \in Folders, f \in FileNames}
    /\ util_call = NoCall
    /\ util_again = NoCall

\* No path is being parsed.
PathIdle ==
    /\ util_path = <<"a">>
    /\ util_call = NoCall
    /\ util_again = NoCall

\* A plugin or the collector calls publisher.util.get_publish_name.
GetPublishName ==
    /\ util_call = NoCall
    /\ \E sequence \in BOOLEAN :
          util_call' = [fn |-> "get_publish_name", version |-> 0,
                        sequence |-> sequence,
                        value |-> get_publish_name(util_path, sequence)]
    /\ UNCHANGED <<util_path, util_again>>
    /\ UNCHANGED notPath

\* get_next_version_name calls publisher.util.get_version_path.
GetVersionPath ==
    /\ util_call = NoCall
    /\ \E version \in Versions :
          util_call' = [fn |-> "get_version_path", version |-> version,
                        sequence |-> FALSE,
                        value |-> get_version_path(util_path, version)]
    /\ UNCHANGED <<util_path, util_again>>
    /\ UNCHANGED notPath

\* get_version_path is called on the path it returned, for any version.
GetVersionPathAgain ==
    /\ util_call.fn = "get_version_path"
    /\ util_again = NoCall
    /\ \E version \in Versions :
          util_again' = [fn |-> "get_version_path", version |-> version,
                         sequence |-> FALSE,
                         value |-> get_version_path(util_call.value, version)]
    /\ UNCHANGED <<util_path, util_call>>
    /\ UNCHANGED notPath

PathNext ==
    \/ GetPublishName
    \/ GetVersionPath
    \/ GetVersionPathAgain

(***************************************************************************)
(* get_next_version_name and the Versions of an entity                     *)
(***************************************************************************)

\* The most uploads of one file to one entity.
MaxUploads == 11

\* \w of a regular expression, among the characters of the file names.
WordChars == (Chars \ {"."}) \cup Digits
all_word(s) == \A n \in 1..Len(s) : s[n] \in WordChars

\* Lines 191-193 of upload_version.py (762-764 of collector.py):
\* re.match(r"(<base>){1}(\.v\d)?\.\w*$", code), with the base name escaped:
\* the base, then ".v" and one digit or nothing, then a dot and word
\* characters up to the end.
version_code_match(base, code) ==
    /\ Len(code) > Len(base)
    /\ SubSeq(code, 1, Len(base)) = base
    /\ LET rest == SubSeq(code, Len(base) + 1, Len(code))
           dot_word(r) == /\ r # <<>>
                          /\ r[1] = "."
                          /\ all_word(SubSeq(r, 2, Len(r)))
       IN  \/ dot_word(rest)
           \/ /\ Len(rest) >= 3
              /\ rest[1] = "."
              /\ rest[2] = "v"
              /\ rest[3] \in Digits
              /\ dot_word(SubSeq(rest, 4, Len(rest)))

\* len(x) + 1 of lines 193-196: one more than the prior Versions whose code
\* matches.
version_number(path, prior_versions) ==
    LET publish_name == get_file_path_components(path).filename
        base == split_first(publish_name)
    IN  Cardinality({n \in 1..Len(prior_versions) :
                        version_code_match(base, prior_versions[n])}) + 1

\* upload_version.py, lines 175-199, and collector.py, lines 747-775.
get_next_version_name(path, prior_versions) ==
    get_version_path(path, version_number(path, prior_versions))

NextVersionInit ==
    /\ upload_path \in {join(<<"d">>, f) : f \in FileNames}
    /\ sg_versions = <<>>
    /\ uploads = <<>>

\* Nothing is being uploaded.
NextVersionIdle ==
    /\ upload_path = <<"a">>
    /\ sg_versions = <<>>
    /\ uploads = <<>>

\* The file is uploaded for review once more: validate names the upload
\* with get_next_version_name (upload_version.py, lines 131-140) and publish
\* creates a Version of the entity whose code is that name.
Upload ==
    /\ Len(uploads) < MaxUploads
    /\ LET version_path == get_next_version_name(upload_path, sg_versions)
           publish_name == get_file_path_components(version_path).filename
       IN  /\ uploads' = Append(uploads,
                                [number |-> version_number(upload_path,
                                                           sg_versions),
                                 name |-> publish_name])
           /\ sg_versions' = Append(sg_versions, publish_name)
    /\ UNCHANGED upload_path
    /\ UNCHANGED notNextVersion

NextVersionNext ==
    \/ Upload

(***************************************************************************)
(* PostPhaseHook._update_version_data                                      *)
(***************************************************************************)

\* Items of the tree _update_version_data walks, in the order the tree
\* yields them.
NTreeItems == 3
TreeItems == 1..NTreeItems

\* Lines 296-324, one turn of the loop, as the "version" of every item's
\* sg_publish_data after the turn for item i (0: no version linked; n: the
\* sg_version_data of item n).
link_version(i, links) ==
    IF i \in vd_published
    THEN IF links[i] = 0
         THEN IF i \in vd_version_data
              THEN [links EXCEPT ![i] = i]
              ELSE IF /\ vd_parent[i] # 0
                      /\ vd_parent[i] \in vd_published
                      /\ links[vd_parent[i]] # 0
                   THEN [links EXCEPT ![i] = links[vd_parent[i]]]
                   ELSE links
         ELSE links
    ELSE IF /\ i \in vd_version_data
            /\ vd_parent[i] # 0
            /\ vd_parent[i] \in vd_published
            /\ links[vd_parent[i]] = 0
         THEN [links EXCEPT ![vd_parent[i]] = i]
         ELSE links

VersionDataInit ==
    /\ vd_parent \in {p \in [TreeItems -> 0..NTreeItems] :
                         \A i \in TreeItems : p[i] < i}
    /\ vd_published \in SUBSET TreeItems
    /\ vd_version_data \in SUBSET TreeItems
    /\ vd_version = [i \in TreeItems |-> 0]
    /\ vd_idx = 1

\* _update_version_data is not running.
VersionDataIdle ==
    /\ vd_parent = [i \in TreeItems |-> 0]
    /\ vd_published = {}
    /\ vd_version_data = {}
    /\ vd_version = [i \in TreeItems |-> 0]
    /\ vd_idx = 1

\* The loop of line 296 takes the next item of the tree.
UV_Item ==
    /\ vd_idx \in TreeItems
    /\ vd_version' = link_version(vd_idx, vd_version)
    /\ vd_idx' = vd_idx + 1
    /\ UNCHANGED <<vd_parent, vd_published, vd_version_data>>
    /\ UNCHANGED notVersionData

VersionDataNext ==
    \/ UV_Item

(***************************************************************************)
(* PostPhaseHook._update_thumbnails                                        *)
(***************************************************************************)

\* post_phase.py lines 335 and 336.
sleep_time_start == 2
num_retries == 4

\* Line 350: sleep_time *= 2.
next_sleep_time_linear(t) == t + 2
next_sleep_time(t) == t * 2

\* Lines 329-330: the item has sg_publish_data, no thumbnail of its own and
\* a version linked to its published file.
shares_thumbnail(i) ==
    /\ i \in th_published
    /\ i \notin th_thumbnail
    /\ i \in th_version

ThumbInit ==
    /\ th_published \in SUBSET TreeItems
    /\ th_thumbnail \in SUBSET TreeItems
    /\ th_version \in SUBSET TreeItems
    /\ th_pc = "item"
    /\ th_idx = 1
    /\ th_x = 0
    /\ th_sleep_time = 0
    /\ th_tries = 0
    /\ th_sleeps = <<>>
    /\ th_shared = {}

\* _update_thumbnails is not running.
ThumbIdle ==
    /\ th_published = {}
    /\ th_thumbnail = {}
    /\ th_version = {}
    /\ th_pc = "item"
    /\ th_idx = 1
    /\ th_x = 0
    /\ th_sleep_time = 0
    /\ th_tries = 0
    /\ th_sleeps = <<>>
    /\ th_shared = {}

\* Lines 327-336: the loop takes the next item of the tree; for an item
\* whose thumbnail is to be shared the retry loop is set up.
TH_NextItem ==
    /\ th_pc = "item"
    /\ th_idx \in TreeItems
    /\ IF shares_thumbnail(th_idx)
       THEN /\ th_pc' = "try"
            /\ th_x' = 0
            /\ th_sleep_time' = sleep_time_start
            /\ th_tries' = 0
            /\ th_sleeps' = <<>>
            /\ UNCHANGED th_idx
       ELSE /\ th_idx' = th_idx + 1
            /\ th_pc' = IF th_idx = NTreeItems THEN "done" ELSE "item"
            /\ UNCHANGED <<th_x, th_sleep_time, th_tries, th_sleeps>>
    /\ UNCHANGED <<th_published, th_thumbnail, th_version, th_shared>>
    /\ UNCHANGED notThumb

\* Lines 338-345 and 351-353: the two share_thumbnail calls of one turn;
\* when neither raises the loop is left, when one raises the exception is
\* caught and the turn goes on to sleep.
TH_Share ==
    /\ th_pc = "try"
    /\ th_tries' = th_tries + 1
    /\ \E shared \in BOOLEAN :
          IF shared
          THEN /\ th_shared' = th_shared \cup {th_idx}
               /\ th_idx' = th_idx + 1
               /\ th_pc' = IF th_idx = NTreeItems THEN "done" ELSE "item"
          ELSE /\ th_pc' = "sleep"
               /\ UNCHANGED <<th_shared, th_idx>>
    /\ UNCHANGED <<th_published, th_thumbnail, th_version, th_x, th_sleep_time,
                   th_sleeps>>
    /\ UNCHANGED notThumb

\* Lines 347-350 and the end of a turn of line 338: sleep, double the time,
\* and try again unless this was the last turn of range(0, num_retries).
TH_Sleep ==
    /\ th_pc = "sleep"
    /\ th_sleeps' = Append(th_sleeps, th_sleep_time)
    /\ th_sleep_time' = next_sleep_time(th_sleep_time)
    /\ th_x' = th_x + 1
    /\ IF th_x + 1 < num_retries
       THEN /\ th_pc' = "try"
            /\ UNCHANGED th_idx
       ELSE /\ th_idx' = th_idx + 1
            /\ th_pc' = IF th_idx = NTreeItems THEN "done" ELSE "item"
    /\ UNCHANGED <<th_published, th_thumbnail, th_version, th_tries, th_shared>>
    /\ UNCHANGED notThumb

ThumbNext ==
    \/ TH_NextItem
    \/ TH_Share
    \/ TH_Sleep

(***************************************************************************)
(* Specifications                                                          *)
(***************************************************************************)

InitEnv == EnvInit /\ P4UserIdle /\ PubIdle /\ PlugIdle /\ ColIdle /\ HierIdle /\ SceneIdle /\ PathIdle /\ NextVersionIdle /\ VersionDataIdle /\ ThumbIdle
SpecEnv == InitEnv /\ [][EnvNext]_vars

InitP4User == P4UserInit /\ EnvIdle /\ PubIdle /\ PlugIdle /\ ColIdle /\ HierIdle /\ SceneIdle /\ PathIdle /\ NextVersionIdle /\ VersionDataIdle /\ ThumbIdle
SpecP4User == InitP4User /\ [][P4UserNext]_vars

InitPublish == PubInit /\ EnvIdle /\ P4UserIdle /\ PlugIdle /\ ColIdle /\ HierIdle /\ SceneIdle /\ PathIdle /\ NextVersionIdle /\ VersionDataIdle /\ ThumbIdle
SpecPublish == InitPublish /\ [][PubNext]_vars

InitPlugins == PlugInit /\ EnvIdle /\ P4UserIdle /\ PubIdle /\ ColIdle /\ HierIdle /\ SceneIdle /\ PathIdle /\ NextVersionIdle /\ VersionDataIdle /\ ThumbIdle
SpecPlugins == InitPlugins /\ [][PlugNext]_vars

InitCollector == ColInit /\ EnvIdle /\ P4UserIdle /\ PubIdle /\ PlugIdle /\ HierIdle /\ SceneIdle /\ PathIdle /\ NextVersionIdle /\ VersionDataIdle /\ ThumbIdle
SpecCollector == InitCollector /\ [][ColNext]_vars

InitHierarchy == HierInit /\ P4UserIdle /\ PubIdle /\ PlugIdle /\ ColIdle /\ EnvIdle /\ SceneIdle /\ PathIdle /\ NextVersionIdle /\ VersionDataIdle /\ ThumbIdle
SpecHierarchy == InitHierarchy /\ [][HierNext]_vars

InitScene == SceneInit /\ P4UserIdle /\ PubIdle /\ PlugIdle /\ ColIdle /\ HierIdle /\ EnvIdle /\ PathIdle /\ NextVersionIdle /\ VersionDataIdle /\ ThumbIdle
SpecScene == InitScene /\ [][SceneNext]_vars

InitPathInfo == PathInit /\ P4UserIdle /\ PubIdle /\ PlugIdle /\ ColIdle /\ HierIdle /\ SceneIdle /\ EnvIdle /\ NextVersionIdle /\ VersionDataIdle /\ ThumbIdle
SpecPathInfo == InitPathInfo /\ [][PathNext]_vars

InitNextVersion == NextVersionInit /\ P4UserIdle /\ PubIdle /\ PlugIdle /\ ColIdle /\ HierIdle /\ SceneIdle /\ PathIdle /\ EnvIdle /\ VersionDataIdle /\ ThumbIdle
SpecNextVersion == InitNextVersion /\ [][NextVersionNext]_vars

InitVersionData == VersionDataInit /\ P4UserIdle /\ PubIdle /\ PlugIdle /\ ColIdle /\ HierIdle /\ SceneIdle /\ PathIdle /\ NextVersionIdle /\ EnvIdle /\ ThumbIdle
SpecVersionData == InitVersionData /\ [][VersionDataNext]_vars

InitThumbnails == ThumbInit /\ P4UserIdle /\ PubIdle /\ PlugIdle /\ ColIdle /\ HierIdle /\ SceneIdle /\ PathIdle /\ NextVersionIdle /\ VersionDataIdle /\ EnvIdle
\* _update_thumbnails runs on one thread and every call it makes returns, so
\* its next step is always taken.
SpecThumbnails == InitThumbnails /\ [][ThumbNext]_vars /\ WF_vars(ThumbNext)

(***************************************************************************)
(* Properties of PickEnvironment                                           *)
(***************************************************************************)

\* The environment names execute can return.
EnvironmentNames ==
    {"version", "publishedfile", "site", "project",
     "asset", "asset_child", "special_child", "env_asset", "pub_asset",
     "prod_asset", "asset_step", "asset_child_step", "special_child_step",
     "env_asset_step", "pub_asset_step", "prod_asset_step"}

\* The entity types execute names, and whether it needs the entity's record.
NamedEntityTypes == {"Asset", "CustomEntity01", "CustomEntity03"}
needs_record(ctx) == ctx.entity \in {"Asset", "CustomEntity03"}

C4_FieldThenOneQuery ==
    p4_result # Unset =>
        LET u == sg_user
        IN  /\ (u.kind # "dict" => p4_result = None /\ p4_queries = <<>>)
            /\ (u.kind = "dict" /\ u.has_p4_user =>
                    p4_result = u.sg_p4_user /\ p4_queries = <<>>)
            /\ (u.kind = "dict" /\ ~u.has_p4_user =>
                    /\ p4_queries = <<u.id>>
                    /\ p4_result = IF human_user[u.id].found
                                   THEN human_user[u.id].sg_p4_user
                                   ELSE None)

\* C4 witness: the fallback query found the user's Perforce name.
C4_Witness ==
    /\ sg_user.kind = "dict" /\ ~sg_user.has_p4_user
    /\ p4_queries = <<sg_user.id>>
    /\ p4_result = "jdoe"

(***************************************************************************)
(* Properties of the publish phases and PostPhaseHook                      *)
(***************************************************************************)

\* The items that have sg_publish_data.
registered_items == {i \in Items : sg_publish_data[i].registered}

\* The worker of this invocation of post_publish has ended, and no signal
\* is on its way.
worker_gone ==
    /\ new_change # 0
    /\ workers[new_change].status \in {"finished", "raised"}
    /\ signals = <<>>

\* C5: no published file is registered for an item before the changelist
\* holding the item's file has been submitted: validate and publish register
\* nothing, post_publish registers an item only once the change of this run
\* is submitted with the item's file in it, and finalize acts only on items
\* that have sg_publish_data.
C5_RegisteredAfterSubmit ==
    /\ (phase \in {"collect", "validate", "publish"} => registered_items = {})
    /\ \A i \in registered_items :
          /\ new_change # 0
          /\ p4_changes[new_change].status = "submitted"
          /\ i \in p4_changes[new_change].files
    /\ finalized \subseteq registered_items

\* C6: post_publish leaves the wait loop only after its worker has emitted
\* its response, and it can always leave it: it is never left waiting with
\* its worker ended, no signal under way and no submission to read.
C6_WaitsThenContinues ==
    /\ (phase = "post_publish" /\ pp_pc = "update" =>
            workers[new_change].emits > 0)
    /\ (phase = "post_publish" /\ pp_pc = "wait" /\ worker_gone =>
            ~is_empty(submission))

\* C7: at most one submit worker runs at a time; an invocation of
\* post_publish that finds published items starts exactly one worker, for
\* the change it created, and a worker that has ended called submit_change
\* exactly once and emitted exactly one response.
C7_OneWorkerOneResponse ==
    /\ Cardinality(running_workers) <= 1
    /\ \A c \in Runs :
          /\ workers[c].starts <= 1
          /\ (workers[c].starts = 1 => p4_changes[c].status # "none")
          /\ workers[c].submits <= 1
          /\ workers[c].emits <= 1
          /\ (workers[c].status \in {"finished", "raised"} =>
                workers[c].submits = 1 /\ workers[c].emits = 1)
    /\ (phase = "post_publish" /\ pp_pc \in {"wait", "update"} =>
            workers[new_change].starts = 1)


(***************************************************************************)
(* Properties of the plugins' accept and validate                          *)
(***************************************************************************)

\* C8: for every item presented to it, a plugin's accept returns a
\* dictionary with a boolean 'accepted' key, and a boolean 'checked' key when
\* it has one; for the Photoshop publish and upload plugins this covers the
\* photoshop.document items and every other item type of their filters.
C8_AcceptReturnsDict ==
    method = "accept" =>
        /\ result.kind = "dict"
        /\ result.accepted \in {"True", "False"}
        /\ result.checked \in {Absent, "True", "False"}

\* C9: a plugin's validate returns a boolean or raises an exception; so does
\* UploadVersionPlugin.validate, once it has set publish_name.
C9_ValidateReturnsBoolean ==
    method = "validate" =>
        /\ result.kind \in {"bool", "raise"}
        /\ (result.kind = "bool" => result.value \in {"True", "False"})
        /\ (plugin = "UploadVersionPlugin" => item.publish_name # None)

\* A session item whose session, or a document item whose document, has no
\* path on disk.
unsaved_session(it) ==
    \/ it.type_spec[2] = "session" /\ it.session_path = ""
    \/ it.type_spec = <<"photoshop", "document">> /\ it.document = "unsaved"

\* C13: a call of validate for a session or document item whose session has
\* no path on disk raises the exception saying the session or document has
\* not been saved, leaves item.properties['path'] as it was and does not run
\* the base class validation.
C13_UnsavedSessionRaises ==
    [][(/\ method' = "validate"
        /\ item'.ignore_bad_stuff = item.ignore_bad_stuff
        /\ unsaved_session(item))
       => (/\ result' \in NotSaved
           /\ item'.path = item.path
           /\ ~base_called')]_vars

\* The Houdini check-in plugin has validated an unsaved session.
C13_Witness ==
    /\ method = "validate"
    /\ plugin = "HoudiniPerforceFileCheckin"
    /\ unsaved_session(item)
    /\ result = raises("The Houdini session has not been saved.")
    /\ item.path = None
    /\ ~base_called

(***************************************************************************)
(* Properties of the collector's classification                            *)
(***************************************************************************)

\* The one entry of the table that lists the extension.
entry_of(ext) ==
    common_file_info[CHOOSE i \in Entries : ext \in common_file_info[i].extensions]

\* C10: the collector classifies a file by its extension: a listed extension
\* gives the item type, display name, icon and priority of its table entry;
\* an unlisted one gives 'file.<category>' with priority 0 when mimetypes
\* knows a category, and 'file.unknown', 'File', priority 0 otherwise. No
\* extension is listed in two entries of the table, and the result is the
\* same in whatever order the entries are visited.
C10_ClassifiedByExtension ==
    item_info # NoItemInfo =>
        /\ \A i, j \in Entries :
              i # j => common_file_info[i].extensions
                          \cap common_file_info[j].extensions = {}
        /\ IF extension \in ListedExtensions
           THEN /\ item_info.item_type = entry_of(extension).item_type
                /\ item_info.type_display = entry_of(extension).display
                /\ item_info.icon_path = entry_of(extension).icon
                /\ item_info.item_priority = entry_of(extension).item_priority
           ELSE IF category_type # None
           THEN /\ item_info.item_type = "file." \o category_type
                /\ item_info.item_priority = 0
           ELSE /\ item_info.item_type = "file.unknown"
                /\ item_info.type_display = "File"
                /\ item_info.item_priority = 0
        /\ \A o \in VisitOrders :
              item_info = _get_item_info(extension, category_type, o)

\* A SpeedTree Modeler file has been classified by a collector that visits
\* the table from its end, the SpeedTree Export entry before the Modeler one.
C10_Witness ==
    /\ extension = "spm"
    /\ visit_order = reversed(rotation(0))
    /\ item_info.item_type = "file.speedtree"
    /\ item_info.type_display = "SpeedTree Modeler"
    /\ item_info.item_priority = 10

(***************************************************************************)
(* Properties of the collector's hierarchy                                 *)
(***************************************************************************)

\* The items of the input list that match a lower item: their priority is
\* above its priority and their name is in its file name.
matching_parents(l) ==
    {p \in FileIds : /\ contains(hier_input, p)
                     /\ priority(p) > priority(l)
                     /\ is_in(item_name(p), Files[l].item_path)}

\* C11: when _process_hierarchy returns, an item L is among the children of
\* an item P only when P's priority is above L's and P's name (the file name
\* up to the first dot) is in L's file name; an item that higher-priority
\* items match is a child of one of them with the longest name, in whatever
\* order the input lists the items and wherever that best match was nested.
C11_NestedUnderBestMatch ==
    hier_pc = "done" =>
        /\ \A p \in FileIds : \A n \in 1..Len(children[p]) :
              p \in matching_parents(children[p][n])
        /\ \A l \in FileIds :
              contains(hier_input, l) /\ matching_parents(l) # {} =>
                 \E p \in matching_parents(l) :
                    /\ contains(children[p], l)
                    /\ \A q \in matching_parents(l) :
                          Len(item_name(q)) <= Len(item_name(p))

(***************************************************************************)
(* Properties of the scene operation hooks                                 *)
(***************************************************************************)

\* C12: when "open" is executed for a file whose Perforce action is not
\* "edit", the file is open in the DCC only after the checkout prompt has
\* been shown, and after the file has been checked out when the user's
\* answer is Yes.
C12_PromptBeforeOpen ==
    /\ operation = "open"
    /\ file_action # "edit"
    /\ so_pc = "returned"
    /\ active_document = "file_path"
    => /\ prompted
       /\ (answer = "Yes" => checked_out)

(***************************************************************************)
(* Properties of BasicPathInfo                                             *)
(***************************************************************************)

\* C14: get_version_path returns the path as it is when its file name holds
\* a version number, and otherwise the path with '.v<version>' put right
\* before the extension of the file name; called again on what it returned,
\* with any version, it returns that path unchanged.
C14_VersionPathIdempotent ==
    util_call.fn = "get_version_path" =>
        LET filename == get_file_path_components(util_path).filename
            folder == get_file_path_components(util_path).folder
            returned == get_file_path_components(util_call.value)
        IN  /\ VERSION_REGEX(filename) => util_call.value = util_path
            /\ ~VERSION_REGEX(filename) =>
                  /\ returned.folder = folder
                  /\ \E k \in 0..Len(filename) :
                        /\ returned.filename =
                               SubSeq(filename, 1, k)
                               \o <<".", "v">> \o str(util_call.version)
                               \o SubSeq(filename, k + 1, Len(filename))
                        /\ SubSeq(filename, k + 1, Len(filename))
                               = splitext(filename)[2]
            /\ util_again # NoCall => util_again.value = util_call.value

\* Version 1 has been put into d/a.a, and asking for version 2 of the
\* result has left it as it was.
C14_Witness ==
    /\ util_path = <<"d", "/", "a", ".", "a">>
    /\ util_call.fn = "get_version_path"
    /\ util_call.version = 1
    /\ util_call.value = <<"d", "/", "a", ".", "v", "1", ".", "a">>
    /\ util_again.version = 2
    /\ util_again.value = util_call.value

\* A name holds no folder.
no_slash(s) == \A n \in 1..Len(s) : s[n] # "/"

\* C15: get_publish_name returns the file name without the folder and
\* without the version number, so that every version of a file has one
\* publish name (scene.v001.ma gives scene.ma); with sequence=True the frame
\* number is replaced by as many '#' as it has digits.
C15_PublishNameWithoutVersion ==
    util_call.fn = "get_publish_name" =>
        LET filename == get_file_path_components(util_path).filename
        IN  /\ no_slash(util_call.value)
            /\ ~VERSION_REGEX(util_call.value)
            /\ (util_call.sequence /\ FRAME_REGEX(filename) > 0 =>
                   /\ Len(util_call.value) = Len(filename)
                   /\ \A n \in 1..Len(filename) :
                         util_call.value[n] =
                            IF n > FRAME_REGEX(filename)
                               /\ n < last_index(filename, ".")
                            THEN "#" ELSE filename[n])

(***************************************************************************)
(* Properties of get_next_version_name                                     *)
(***************************************************************************)

\* C16: over successive uploads of one file to one entity, every upload
\* gets a version number one above the number of the upload before it (the
\* first gets 1), and no two uploads get the same version name.
C16_VersionNamesDistinct ==
    /\ \A n \in 1..Len(uploads) : uploads[n].number = n
    /\ \A n, m \in 1..Len(uploads) :
          n # m => uploads[n].name # uploads[m].name

(***************************************************************************)
(* Properties of the registration in post_publish                          *)
(***************************************************************************)

in_change_items(i) == \E k \in 1..Len(change_items) : change_items[k] = i
register_position(i) ==
    CHOOSE k \in 1..Len(register_calls) : register_calls[k] = i

\* C17: in every invocation of post_publish, the submission data the items
\* are updated with is the response of the submit of that invocation's own
\* changelist, never a response left over from an earlier invocation.
C17_SubmissionOfThisInvocation ==
    phase = "post_publish" /\ pp_pc = "update"
    => changed_files.submittedChange = new_change

\* C18: an item gets a published file only when it was added to the
\* changelist of this invocation and that changelist is submitted; the
\* registration carries the revision the submit gave the item's depot file
\* as version_number and in the code, that depot file as sg_p4_depo_path
\* and the number of the submitted change as sg_p4_change_number; and once
\* post_publish has returned, every item added to the changelist has one.
C18_RegisteredWithPerforceData ==
    /\ \A i \in Items :
          sg_publish_data[i].registered
          => /\ in_change_items(i)
             /\ p4_changes[new_change].status = "submitted"
             /\ sg_publish_data[i].version_number = head_rev[i]
             /\ sg_publish_data[i].code_rev = head_rev[i]
             /\ sg_publish_data[i].sg_p4_depo_path = i
             /\ sg_publish_data[i].sg_p4_change_number = new_change
    /\ phase = "finalize" /\ new_change = run
       => \A i \in Items : in_change_items(i) => sg_publish_data[i].registered

\* C19: after open_file_for_edit has raised for an item, that item and the
\* later items are neither in the changelist nor registered; and when
\* post_publish has returned, the changelist with the earlier items is
\* submitted and the earlier items that were published are registered.
C19_InvalidFileEndsAdding ==
    invalid_file # 0 /\ phase \in {"post_publish", "finalize", "done"}
    => /\ \A i \in Items :
             i >= invalid_file
             => /\ ~in_change_items(i)
                /\ i \notin p4_changes[new_change].files
                /\ ~sg_publish_data[i].registered
       /\ phase \in {"finalize", "done"}
          => /\ p4_changes[new_change].status = "submitted"
             /\ \A i \in Items :
                   i < invalid_file /\ publish_data[i].stored
                   => sg_publish_data[i].registered

\* C20: when an item and its parent are both published in a run and the
\* item is registered, the parent was registered before it, and the item's
\* upstream_published_files holds the parent's published file.
C20_ParentBeforeChild ==
    \A i \in Items :
       /\ sg_publish_data[i].registered
       /\ parent[i] # 0
       /\ in_change_items(parent[i])
       => /\ sg_publish_data[parent[i]].registered
          /\ register_position(parent[i]) < register_position(i)
          /\ sg_publish_data[i].upstream_published_files = parent[i]

\* A child and its parent are both registered.
C20_Witness ==
    \E i \in Items :
       /\ sg_publish_data[i].registered
       /\ parent[i] # 0
       /\ in_change_items(parent[i])
       /\ sg_publish_data[parent[i]].registered

\* C21: an item that was published with its parent has the parent's
\* published file in the dependency_ids of its publish_data: whenever the
\* item has publish_data and the parent has a published file, the parent's
\* published file is among the item's dependency_ids.
C21_ParentInDependencyIds ==
    \A i \in Items :
       /\ publish_data[i].stored
       /\ parent[i] # 0
       /\ publish_data[parent[i]].stored
       /\ sg_publish_data[parent[i]].registered
       => parent[i] \in publish_data[i].dependency_ids

(***************************************************************************)
(* Properties of _update_version_data and _update_thumbnails               *)
(***************************************************************************)

version_only(i) == i \in vd_version_data /\ i \notin vd_published

\* C22: after _update_version_data has walked the tree, every published
\* item that has its own version data or whose parent's published file has
\* a version has a version linked, and a published item without own version
\* data that has a version-only child is linked to the version of such a
\* child, unless it took the version of its own parent before.
C22_VersionsLinked ==
    vd_idx = NTreeItems + 1
    => \A i \in vd_published :
          /\ i \in vd_version_data => vd_version[i] # 0
          /\ (/\ vd_parent[i] # 0
              /\ vd_parent[i] \in vd_published
              /\ vd_version[vd_parent[i]] # 0) => vd_version[i] # 0
          /\ (/\ i \notin vd_version_data
              /\ \E c \in TreeItems : vd_parent[c] = i /\ version_only(c))
             => \/ \E c \in TreeItems :
                      /\ vd_parent[c] = i
                      /\ version_only(c)
                      /\ vd_version[i] = c
                \/ /\ vd_version[i] # 0
                   /\ vd_parent[i] # 0
                   /\ vd_version[i] = vd_version[vd_parent[i]]

\* C23: _update_thumbnails always ends; for an item it calls share_thumbnail
\* in at most 4 turns, the waits after the failures are 2, 4, 8 and 16
\* seconds, one per failure, a turn that succeeds is the last one for the
\* item, and after the fourth failure it goes on to the next item.
C23_ThumbnailRetries ==
    /\ [](/\ th_tries <= 4
          /\ Len(th_sleeps) <= th_tries
          /\ th_tries <= Len(th_sleeps) + 1
          /\ \A k \in 1..Len(th_sleeps) : th_sleeps[k] = 2 ^ k
          /\ th_pc \in {"item", "try", "sleep", "done"})
    /\ [][/\ th_tries' = th_tries + 1 => th_idx \notin th_shared
          /\ th_shared' # th_shared => th_pc' \in {"item", "done"}
          /\ Len(th_sleeps') = 4 /\ th_sleeps' # th_sleeps
             => th_pc' \in {"item", "done"}]_vars
    /\ <>(th_pc = "done")

\* The sharing failed four times for an item and _update_thumbnails ended.
C23_Witness ==
    /\ th_pc = "done"
    /\ th_tries = 4
    /\ th_sleeps = <<2, 4, 8, 16>>
    /\ th_shared = {}

(***************************************************************************)
(* More properties of _process_hierarchy                                   *)
(***************************************************************************)

occurrences(s, x) == Cardinality({k \in 1..Len(s) : s[k] = x})

places(l) ==
    occurrences(item_infos, l)
        + Cardinality({<<p, k>> \in FileIds \X (1..Len(Files)) :
                          k <= Len(children[p]) /\ children[p][k] = l})

\* The items below p in the result, down to n levels.
RECURSIVE descendants(_, _)
descendants(p, n) ==
    IF n = 0
    THEN {}
    ELSE LET below == {children[p][k] : k \in 1..Len(children[p])}
         IN  below \cup UNION {descendants(c, n - 1) : c \in below}

\* C24: _process_hierarchy never raises, and when it returns every input
\* item is in exactly one place of the result, the top-level list or the
\* children of one other input item, and no item is below itself.
C24_ReturnsEveryItemOnce ==
    /\ hier_pc # "raised"
    /\ hier_pc = "done"
       => \A l \in FileIds :
             /\ places(l) = (IF contains(hier_input, l) THEN 1 ELSE 0)
             /\ \A k \in 1..Len(children[l]) :
                   contains(hier_input, l) /\ children[l][k] # l
             /\ l \notin descendants(l, Len(Files))

(***************************************************************************)
(* Properties of PublishPlugin.validate and _ignore_warning                *)
(***************************************************************************)

\* The entities of the item and of its path agree and are known.
entities_agree(it) ==
    /\ ~(it.item_entity = None /\ it.target_entity = None)
    /\ it.target_entity = it.item_entity

\* A step is a call of PublishPlugin.validate for the item.
validate_called ==
    /\ plugin' \in {"PublishPlugin", "AddPublishPlugin"}
    /\ method' = "validate"
    /\ item' = item
    /\ item.path # None

====
